---- MODULE Spec2Model ----
(***************************************************************************)
(* The Project Mirror (FilesStore, app/lib/stores/files.ts) over one       *)
(* active backend (app/utils/file-system-interface.ts).                    *)
(*                                                                         *)
(* Paths and file contents are sequences of one-character strings, bytes   *)
(* are sequences of integers, so that prefix tests, trailing-slash         *)
(* stripping and the text encoding are computed, not assumed.              *)
(*                                                                         *)
(* A Mirror write (createFile, saveFile, createFolder, deleteFile,         *)
(* deleteFolder) is one step, backend calls and commit together; the       *)
(* content load #loadFileContentAsync is split at its await on readFile,   *)
(* so that other handlers run between its read and its setKey.             *)
(*                                                                         *)
(* The Persistent Backend Adapter (OPFSService, unnamed/part_003) and the  *)
(* Synchronizer (syncOPFS, at the end of app/lib/stores/files.ts) have     *)
(* their own variables and their own specifications, SpecAdapter and       *)
(* SpecSync; each specification leaves the variables of the others alone.  *)
(***************************************************************************)
EXTENDS Integers, Sequences, FiniteSets, TLC

VARIABLES
    files,          \* FilesStore.files : path -> Dirent (keys present only)
    size,           \* FilesStore.#size
    modifiedFiles,  \* FilesStore.#modifiedFiles : path -> original content
    deletedPaths,   \* FilesStore.#deletedPaths
    storage,        \* localStorage item 'bolt-deleted-paths'
    backend,        \* the tree held by the active FileSystemInterface
    loads,          \* #loadFileContentAsync calls in flight
    fsType,         \* getFileSystemType()
    last,           \* the call that completed last: what returned, or that it threw
    opfs,           \* the tree below the root handle of OPFSService
    root,           \* OPFSService.root is set
    result,         \* how the last OPFSService call ended
    window,         \* typeof window !== 'undefined' where OPFSService runs
    permission,     \* the readwrite permission state of the root handle
    wcfs,           \* the tree of webcontainer.fs
    syncs,          \* the executions of syncOPFS in progress
    interval,       \* where the boot chain stands: before, after or without setInterval
    outcome,        \* how the execution of syncOPFS that ended last ended
    settled,        \* the sandbox tree as the last execution left it, if nothing else wrote since
    changes,        \* changes made so far to the trees from outside the Synchronizer
    watchers,       \* the watchPath subscriptions of the Mirror that are open, by backend
    fileContents,   \* OPFSFileSystem.fileContents of the instance a file is watched on
    watcher,        \* the watchFile watcher of that instance: none, open or closed
    poll,           \* the interval callback of the watcher: idle or awaiting readFile
    calls           \* the invocations of the watcher's callback, in order

watchVars == <<fileContents, watcher, poll, calls>>
mirrorVars == <<files, size, modifiedFiles, deletedPaths, storage, backend, loads, fsType, last,
                watchers, watchVars>>
adapterVars == <<root, result, window, permission>>
syncVars == <<wcfs, syncs, interval, outcome, settled, changes>>

vars == <<mirrorVars, opfs, adapterVars, syncVars>>

mirror == <<files, size, modifiedFiles, deletedPaths>>

----------------------------------------------------------------------------
(* Bounds of the model *)

\* #size is an unbounded counter: it is kept within -MaxSize .. MaxSize
MaxSize == 2
\* number of #loadFileContentAsync calls in flight at once
MaxLoads == 1
\* number of watchPath subscriptions of one Mirror that are open at once
MaxWatchers == 2

----------------------------------------------------------------------------
(* Strings *)

StartsWith(s, prefix) ==
    /\ Len(s) >= Len(prefix)
    /\ SubSeq(s, 1, Len(prefix)) = prefix

\* eventPath.replace(/\/+$/g, '')
RECURSIVE StripTrailingSlashes(_)
StripTrailingSlashes(s) ==
    IF Len(s) > 0 /\ s[Len(s)] = "/"
    THEN StripTrailingSlashes(SubSeq(s, 1, Len(s) - 1))
    ELSE s

\* index of the last "/" of s, 0 when there is none
RECURSIVE LastSlash(_, _)
LastSlash(s, i) ==
    IF i = 0 THEN 0
    ELSE IF s[i] = "/" THEN i
    ELSE LastSlash(s, i - 1)

\* path.dirname of an absolute path without trailing slash
dirname(p) ==
    LET i == LastSlash(p, Len(p))
    IN  IF i = 0 THEN <<".">>
        ELSE IF i = 1 THEN <<"/">>
        ELSE SubSeq(p, 1, i - 1)

\* the work directory; every Mirror path lies below it
WORK_DIR == <<"/", "w">>

D == WORK_DIR \o <<"/", "d">>          \* a directory
F == D \o <<"/", "f">>                 \* a file in it

FilePaths == {F}
FolderPaths == {D}
AllPaths == FilePaths \cup FolderPaths

\* file contents the callers write
Empty == <<>>
Space == <<" ">>
Contents == {Empty, <<"x">>}

\* TextEncoder.encode / TextDecoder('utf8').decode on the characters used
Chars == {" ", "x"}
CharCode == [c \in Chars |-> IF c = " " THEN 32 ELSE 120]
CodeChar(b) == CHOOSE c \in Chars : CharCode[c] = b

encode(s) == [i \in 1..Len(s) |-> CharCode[s[i]]]

Utf8Valid(bytes) == \A i \in 1..Len(bytes) : \E c \in Chars : CharCode[c] = bytes[i]

NoBuffer == [present |-> FALSE]
Buf(bytes) == [present |-> TRUE, bytes |-> bytes]

\* #decodeFileContent
decodeFileContent(buffer) ==
    IF ~buffer.present \/ Len(buffer.bytes) = 0 THEN Empty
    ELSE IF Utf8Valid(buffer.bytes)
         THEN [i \in 1..Len(buffer.bytes) |-> CodeChar(buffer.bytes[i])]
         ELSE Empty

\* isBinaryFile: getEncoding(...) === 'binary', a buffer holding a NUL byte
isBinaryFile(buffer) ==
    IF ~buffer.present THEN FALSE
    ELSE \E i \in 1..Len(buffer.bytes) : buffer.bytes[i] = 0

----------------------------------------------------------------------------
(* Dirents and maps *)

Folder == [type |-> "folder"]
File(content, isBinary) == [type |-> "file", content |-> content, isBinary |-> isBinary]

IsFile(m, p) == p \in DOMAIN m /\ m[p].type = "file"
IsFolder(m, p) == p \in DOMAIN m /\ m[p].type = "folder"

\* MapStore.setKey(p, v) / Map.set(p, v)
SetKey(m, p, v) == [q \in DOMAIN m \cup {p} |-> IF q = p THEN v ELSE m[q]]
\* MapStore.setKey(p, undefined) / Map.delete(p)
DelKey(m, p) == [q \in DOMAIN m \ {p} |-> m[q]]

EmptyMap == [q \in {} |-> Folder]

Range(s) == {s[i] : i \in DOMAIN s}

----------------------------------------------------------------------------
(* The backend: OPFSFileSystem / WebContainerFileSystem *)

OPFS == "opfs"
WEB_CONTAINER == "webcontainer"

Dir == [kind |-> "dir"]
Data(bytes) == [kind |-> "file", bytes |-> bytes]

\* the directories strictly between the work directory and p
Ancestors(p) ==
    {SubSeq(p, 1, i - 1) : i \in {j \in 1..Len(p) : p[j] = "/" /\ j - 1 > Len(WORK_DIR)}}

Descendants(m, p) == {q \in DOMAIN m : StartsWith(q, p \o <<"/">>)}

HasFile(b, p) == p \in DOMAIN b /\ b[p].kind = "file"
HasDir(b, p) == p \in DOMAIN b /\ b[p].kind = "dir"

\* mkdir(p, {recursive: true}) can succeed: no file stands on the way
MkdirCan(b, p) == \A q \in Ancestors(p) \cup {p} : ~HasFile(b, q)
mkdir(b, p) ==
    [q \in DOMAIN b \cup Ancestors(p) \cup {p} |->
        IF q \in Ancestors(p) \cup {p} THEN Dir ELSE b[q]]

\* writeFile: OPFS creates the missing parents (getFileFromPath(.., true)),
\* the WebContainer needs them
WriteCan(b, p, fs) ==
    /\ ~HasDir(b, p)
    /\ \A q \in Ancestors(p) : IF fs = OPFS THEN ~HasFile(b, q) ELSE HasDir(b, q)
writeFile(b, p, bytes) ==
    [q \in DOMAIN b \cup Ancestors(p) \cup {p} |->
        IF q = p THEN Data(bytes)
        ELSE IF q \in Ancestors(p) THEN Dir
        ELSE b[q]]

\* rm(p, {recursive})
RmCan(b, p, recursive) ==
    /\ p \in DOMAIN b
    /\ (HasDir(b, p) /\ Descendants(b, p) # {}) => recursive
rm(b, p) == [q \in DOMAIN b \ ({p} \cup Descendants(b, p)) |-> b[q]]

\* readFile(p) resolves iff p is a file
ReadCan(b, p) == HasFile(b, p)

----------------------------------------------------------------------------
(* localStorage 'bolt-deleted-paths' *)

NoItem == [present |-> FALSE]

\* JSON.stringify([...set]): the paths as an array
JSONStringify(set) ==
    CHOOSE s \in [1..Cardinality(set) -> set] : Range(s) = set

\* the constructor's JSON.parse and forEach(add)
loadDeletedPaths(item) == IF item.present THEN Range(item.json) ELSE {}

\* #persistDeletedPaths: setItem either stores the array or throws (swallowed)
persistDeletedPaths(item, deleted) ==
    {[present |-> TRUE, json |-> JSONStringify(deleted)], item}

----------------------------------------------------------------------------
(* The state after construction *)

Op(op, path, content, ok) == [op |-> op, path |-> path, content |-> content, ok |-> ok]
\* a Mirror write rethrew the backend's error to its caller
Threw == Op("write", <<>>, Empty, FALSE)

\* the adapter and the Synchronizer are left out of a specification
NoCall ==
    [op |-> "none", path |-> <<>>, recursive |-> "absent", code |-> "ok",
     value |-> "none", raised |-> "none"]
AdapterOff ==
    /\ opfs = EmptyMap /\ root = FALSE /\ result = NoCall
    /\ window = TRUE /\ permission = "granted"
SyncOff ==
    /\ wcfs = EmptyMap /\ syncs = <<>>
    /\ interval = "none" /\ outcome = "none" /\ changes = 0
    /\ settled = [known |-> FALSE]
\* no file is watched
WatchOff ==
    /\ fileContents = EmptyMap /\ watcher = "none"
    /\ poll = "idle" /\ calls = <<>>
services == <<opfs, adapterVars, syncVars>>
others == <<watchers, watchVars, services>>

\* a page with no watchPath subscription
NoWatchers == [type \in {OPFS, WEB_CONTAINER} |-> 0]
\* #init: fileSystem.watchPath(config, callback) registers a subscription on the
\* backend of the current type; the handle it returns is dropped
init_watchPath(subscriptions, type) == [subscriptions EXCEPT ![type] = @ + 1]
openWatchers(subscriptions) == subscriptions[OPFS] + subscriptions[WEB_CONTAINER]

InitMirror ==
    /\ files = EmptyMap
    /\ size = 0
    /\ modifiedFiles = EmptyMap
    /\ deletedPaths = {}
    /\ storage = NoItem
    /\ backend = EmptyMap
    /\ loads = {}
    /\ fsType \in {OPFS, WEB_CONTAINER}
    /\ last = Op("init", <<>>, Empty, TRUE)
    /\ watchers = init_watchPath(NoWatchers, fsType)
    /\ WatchOff

Init == InitMirror /\ AdapterOff /\ SyncOff

----------------------------------------------------------------------------
(* Mirror reads *)

\* getFile: the Dirent when it is a file (its content is always loaded here)
getFile(m, p) == IF IsFile(m, p) THEN m[p] ELSE [type |-> "undefined"]

\* getModifiedFiles: the paths it returns, mapped to their File
getModifiedFiles(m, ledger) ==
    LET keep == {p \in DOMAIN ledger : IsFile(m, p) /\ m[p].content # ledger[p]}
    IN  [p \in keep |-> m[p]]

\* getModifiedFiles() returns undefined
ModifiedUndefined(m, ledger) == DOMAIN getModifiedFiles(m, ledger) = {}

----------------------------------------------------------------------------
(* Mirror writes *)

\* the commit of createFile for text content
createFileCommit(p, content) ==
    /\ files' = SetKey(files, p, File(content, FALSE))
    /\ modifiedFiles' = SetKey(modifiedFiles, p, content)
    /\ UNCHANGED <<size, deletedPaths, storage>>

\* what createFile hands to writeFile
contentToWrite(content) == IF Len(content) = 0 THEN Space ELSE content

\* the backend after createFile's mkdir of the parent (skipped for '.')
createFileMkdir(b, p) == IF dirname(p) = <<".">> THEN b ELSE mkdir(b, dirname(p))

createFileOk(p, content) ==
    /\ dirname(p) # <<".">> => MkdirCan(backend, dirname(p))
    /\ WriteCan(createFileMkdir(backend, p), p, fsType)
    /\ backend' = writeFile(createFileMkdir(backend, p), p, encode(contentToWrite(content)))
    /\ createFileCommit(p, content)
    /\ last' = Op("createFile", p, content, TRUE)
    /\ UNCHANGED <<loads, fsType, others>>

\* mkdir throws, or mkdir succeeds and writeFile throws
createFileFails(p, content) ==
    /\ \/ backend' = backend
       \/ /\ dirname(p) # <<".">>
          /\ MkdirCan(backend, dirname(p))
          /\ backend' = mkdir(backend, dirname(p))
    /\ last' = Threw
    /\ UNCHANGED <<files, size, modifiedFiles, deletedPaths, storage, loads, fsType, others>>

createFile == \E p \in FilePaths, c \in Contents : createFileOk(p, c) \/ createFileFails(p, c)

\* mutant: the ledger is seeded with the new content
saveFileCommit_seedsNew(p, content, oldContent) ==
    /\ modifiedFiles' = IF p \in DOMAIN modifiedFiles THEN modifiedFiles
                        ELSE SetKey(modifiedFiles, p, content)
    /\ files' = SetKey(files, p, File(content, FALSE))
    /\ UNCHANGED <<size, deletedPaths, storage>>

\* saveFile: getFile, writeFile, then the ledger and the map
saveFileCommit(p, content, oldContent) ==
    /\ modifiedFiles' = IF p \in DOMAIN modifiedFiles THEN modifiedFiles
                        ELSE SetKey(modifiedFiles, p, oldContent)
    /\ files' = SetKey(files, p, File(content, FALSE))
    /\ UNCHANGED <<size, deletedPaths, storage>>

saveFileOk(p, content) ==
    /\ getFile(files, p).type = "file"
    /\ WriteCan(backend, p, fsType)
    /\ backend' = writeFile(backend, p, encode(content))
    /\ saveFileCommit(p, content, getFile(files, p).content)
    /\ last' = Op("saveFile", p, content, TRUE)
    /\ UNCHANGED <<loads, fsType, others>>

\* no File at p ('Expected content to be defined'), or writeFile throws
saveFileFails(p, content) ==
    /\ last' = Threw
    /\ UNCHANGED <<files, size, modifiedFiles, deletedPaths, storage, backend, loads, fsType, others>>

saveFile == \E p \in FilePaths, c \in Contents : saveFileOk(p, c) \/ saveFileFails(p, c)

createFolderCommit(p) ==
    /\ files' = SetKey(files, p, Folder)
    /\ UNCHANGED <<size, modifiedFiles, deletedPaths, storage>>

createFolderOk(p) ==
    /\ MkdirCan(backend, p)
    /\ backend' = mkdir(backend, p)
    /\ createFolderCommit(p)
    /\ last' = Op("createFolder", p, Empty, TRUE)
    /\ UNCHANGED <<loads, fsType, others>>

createFolderFails(p) ==
    /\ last' = Threw
    /\ UNCHANGED <<files, size, modifiedFiles, deletedPaths, storage, backend, loads, fsType, others>>

createFolder == \E p \in FolderPaths : createFolderOk(p) \/ createFolderFails(p)

\* deleteFile after rm has succeeded
deleteFileCommit(p) ==
    /\ deletedPaths' = deletedPaths \cup {p}
    /\ files' = DelKey(files, p)
    /\ size' = size - 1
    /\ modifiedFiles' = DelKey(modifiedFiles, p)
    /\ storage' \in persistDeletedPaths(storage, deletedPaths')

deleteFileOk(p) ==
    /\ size > -MaxSize
    /\ RmCan(backend, p, FALSE)
    /\ backend' = rm(backend, p)
    /\ deleteFileCommit(p)
    /\ last' = Op("deleteFile", p, Empty, TRUE)
    /\ UNCHANGED <<loads, fsType, others>>

\* mutant: the tombstone is added before rm is awaited
deleteFileFails_commitFirst(p) ==
    /\ deletedPaths' = deletedPaths \cup {p}
    /\ last' = Threw
    /\ UNCHANGED <<files, size, modifiedFiles, storage, backend, loads, fsType, others>>

deleteFileFails(p) ==
    /\ last' = Threw
    /\ UNCHANGED <<files, size, modifiedFiles, deletedPaths, storage, backend, loads, fsType, others>>

deleteFile == \E p \in FilePaths : deleteFileOk(p) \/ deleteFileFails(p)

\* mutant: the test is path.startsWith(folderPath), without the separator
deleteFolderCommit_prefix(p) ==
    LET allFiles == DelKey(files, p)
        below    == {q \in DOMAIN allFiles : StartsWith(q, p)}
        removed  == {q \in below : allFiles[q].type = "file"}
    IN  /\ deletedPaths' = deletedPaths \cup {p} \cup below
        /\ files' = [q \in DOMAIN allFiles \ below |-> allFiles[q]]
        /\ size' = size - Cardinality(removed)
        /\ modifiedFiles' = [q \in DOMAIN modifiedFiles \ removed |-> modifiedFiles[q]]
        /\ storage' \in persistDeletedPaths(storage, deletedPaths')

\* deleteFolder after rm has succeeded; allFiles is read after the folder's
\* own key is cleared
deleteFolderCommit(p) ==
    LET allFiles == DelKey(files, p)
        below    == Descendants(allFiles, p)
        removed  == {q \in below : allFiles[q].type = "file"}
    IN  /\ deletedPaths' = deletedPaths \cup {p} \cup below
        /\ files' = [q \in DOMAIN allFiles \ below |-> allFiles[q]]
        /\ size' = size - Cardinality(removed)
        /\ modifiedFiles' = [q \in DOMAIN modifiedFiles \ removed |-> modifiedFiles[q]]
        /\ storage' \in persistDeletedPaths(storage, deletedPaths')

deleteFolderOk(p) ==
    /\ RmCan(backend, p, TRUE)
    /\ backend' = rm(backend, p)
    /\ deleteFolderCommit(p)
    /\ size' >= -MaxSize
    /\ last' = Op("deleteFolder", p, Empty, TRUE)
    /\ UNCHANGED <<loads, fsType, others>>

deleteFolderFails(p) ==
    /\ last' = Threw
    /\ UNCHANGED <<files, size, modifiedFiles, deletedPaths, storage, backend, loads, fsType, others>>

deleteFolder == \E p \in FolderPaths : deleteFolderOk(p) \/ deleteFolderFails(p)

resetFileModifications ==
    /\ modifiedFiles' = EmptyMap
    /\ last' = Op("resetFileModifications", <<>>, Empty, TRUE)
    /\ UNCHANGED <<files, size, deletedPaths, storage, backend, loads, fsType, others>>

----------------------------------------------------------------------------
(* Event application: #processEventBuffer *)

B64 == << "A","B","C","D","E","F","G","H","I","J","K","L","M","N","O","P",
          "Q","R","S","T","U","V","W","X","Y","Z","a","b","c","d","e","f",
          "g","h","i","j","k","l","m","n","o","p","q","r","s","t","u","v",
          "w","x","y","z","0","1","2","3","4","5","6","7","8","9","+","/" >>

\* Buffer.from(bytes).toString('base64')
RECURSIVE base64(_)
base64(bytes) ==
    LET n == Len(bytes) IN
    IF n = 0 THEN <<>>
    ELSE IF n = 1 THEN
        << B64[(bytes[1] \div 4) + 1], B64[(bytes[1] % 4) * 16 + 1], "=", "=" >>
    ELSE IF n = 2 THEN
        << B64[(bytes[1] \div 4) + 1],
           B64[(bytes[1] % 4) * 16 + (bytes[2] \div 16) + 1],
           B64[(bytes[2] % 16) * 4 + 1], "=" >>
    ELSE
        << B64[(bytes[1] \div 4) + 1],
           B64[(bytes[1] % 4) * 16 + (bytes[2] \div 16) + 1],
           B64[(bytes[2] % 16) * 4 + (bytes[3] \div 64) + 1],
           B64[(bytes[3] % 64) + 1] >> \o base64(SubSeq(bytes, 4, n))

\* the buffers a watcher event carries
EventBuffers == {NoBuffer, Buf(encode(Space)), Buf(<<0>>)}

Event(type, path, buffer) == [type |-> type, path |-> path, buffer |-> buffer]

Events ==
    {Event(t, p, NoBuffer) : t \in {"add_dir", "remove_dir"}, p \in {D, D \o <<"/">>}}
    \cup {Event(t, p, b) : t \in {"add_file", "change"}, p \in FilePaths, b \in EventBuffers}
    \cup {Event("remove_file", p, NoBuffer) : p \in FilePaths}
    \cup {Event("update_directory", p, NoBuffer) : p \in FolderPaths}

\* the own enumerable keys of the MapStore object, which Object.entries(this.files)
\* walks in the remove_dir case
StoreKeys == { <<"l","c">>, <<"v","a","l","u","e">> }

\* mutant: the loop over the deleted folders is missing
isInDeletedFolder_exactOnly(deleted, sanitizedPath) == FALSE

\* the event's path is in a folder that was deleted
isInDeletedFolder(deleted, sanitizedPath) ==
    \E deletedPath \in deleted : StartsWith(sanitizedPath, deletedPath \o <<"/">>)

\* the event is skipped because of the deleted-path set
isSuppressed(deleted, sanitizedPath) ==
    sanitizedPath \in deleted \/ isInDeletedFolder(deleted, sanitizedPath)

\* content of an add_file / change event
eventContent(type, buffer, existingFiles, sanitizedPath) ==
    LET isBinary == isBinaryFile(buffer)
        decoded  == IF isBinary /\ buffer.present THEN base64(buffer.bytes)
                    ELSE IF decodeFileContent(buffer) = Space /\ type = "add_file" THEN Empty
                    ELSE decodeFileContent(buffer)
    IN  IF /\ IsFile(existingFiles, sanitizedPath)
           /\ existingFiles[sanitizedPath].isBinary
           /\ Len(existingFiles[sanitizedPath].content) > 0
           /\ Len(decoded) = 0
        THEN existingFiles[sanitizedPath].content
        ELSE decoded

Load(path, stage, buffer) == [path |-> path, stage |-> stage, buffer |-> buffer]

\* one iteration of the loop over watchEvents; st = [files, size, loads]
applyEvent(st, deleted, fs, ev) ==
    LET sanitizedPath == StripTrailingSlashes(ev.path) IN
    IF Len(ev.path) = 0 THEN st
    ELSE IF isSuppressed(deleted, sanitizedPath) THEN st
    ELSE CASE ev.type = "add_dir" ->
                [st EXCEPT !.files = SetKey(@, sanitizedPath, Folder)]
           [] ev.type = "remove_dir" ->
                [st EXCEPT !.files =
                    LET cleared == DelKey(@, sanitizedPath)
                    IN  [q \in DOMAIN cleared \ {k \in StoreKeys : StartsWith(k, sanitizedPath)}
                            |-> cleared[q]]]
           [] ev.type \in {"add_file", "change"} ->
                LET counted == IF ev.type = "add_file" THEN st.size + 1 ELSE st.size IN
                IF fs = OPFS /\ ~ev.buffer.present /\ ev.type = "change"
                THEN [st EXCEPT !.size = counted,
                                !.loads = @ \cup {Load(sanitizedPath, "reading", NoBuffer)}]
                ELSE [st EXCEPT !.size = counted,
                                !.files = SetKey(@, sanitizedPath,
                                    File(eventContent(ev.type, ev.buffer, st.files, sanitizedPath),
                                         isBinaryFile(ev.buffer)))]
           [] ev.type = "remove_file" ->
                [st EXCEPT !.size = @ - 1, !.files = DelKey(@, sanitizedPath)]
           [] OTHER -> st

RECURSIVE applyEvents(_, _, _, _)
applyEvents(st, deleted, fs, watchEvents) ==
    IF watchEvents = <<>> THEN st
    ELSE applyEvents(applyEvent(st, deleted, fs, Head(watchEvents)), deleted, fs, Tail(watchEvents))

\* The loop handles the events of a batch one after the other, synchronously,
\* so a batch of n events reaches the states that n batches of one event reach.
Batches == {<<ev>> : ev \in Events}

\* #processEventBuffer called with the batch watchEvents
processBatch(watchEvents) ==
        LET st == applyEvents([files |-> files, size |-> size, loads |-> loads],
                              deletedPaths, fsType, watchEvents)
        IN  /\ st.size \in -MaxSize..MaxSize
            /\ Cardinality(st.loads) <= MaxLoads
            /\ files' = st.files
            /\ size' = st.size
            /\ loads' = st.loads
            /\ last' = Op("processEventBuffer", StripTrailingSlashes(watchEvents[Len(watchEvents)].path), Empty, TRUE)
            /\ UNCHANGED <<modifiedFiles, deletedPaths, storage, backend, fsType, others>>

processEventBuffer ==
    \E watchEvents \in Batches : processBatch(watchEvents)

----------------------------------------------------------------------------
(* #loadFileContentAsync *)

\* readFile has answered: with the bytes, or by throwing (caught, load over)
\* the trees a backend instance can hold when the Mirror starts to use it (the
\* sandbox is written by the Synchronizer and by the processes run in it, the
\* origin private file system by every other user of it)
BackendTrees ==
    {EmptyMap, mkdir(EmptyMap, D)}
        \cup {writeFile(EmptyMap, p, encode(c)) : p \in FilePaths, c \in {Space, <<"x">>}}

\* a load is started in OPFS mode only and reads the OPFS instance of that time
opfsTrees == IF fsType = OPFS THEN {backend} ELSE BackendTrees

loadRead ==
    \E l \in loads, b \in opfsTrees :
        /\ l.stage = "reading"
        /\ loads' = IF ReadCan(b, l.path)
                    THEN (loads \ {l}) \cup {Load(l.path, "read", Buf(b[l.path].bytes))}
                    ELSE loads \ {l}
        /\ UNCHANGED <<files, size, modifiedFiles, deletedPaths, storage, backend, fsType, last, others>>

\* the File a finished read puts in the map
loadedFile(buffer) ==
    IF isBinaryFile(buffer) THEN File(base64(buffer.bytes), TRUE)
    ELSE File(decodeFileContent(buffer), FALSE)

\* the continuation after the await: setKey
loadResolve ==
    \E l \in loads :
        /\ l.stage = "read"
        /\ files' = SetKey(files, l.path, loadedFile(l.buffer))
        /\ loads' = loads \ {l}
        /\ last' = Op("loadFileContentAsync", l.path, Empty, TRUE)
        /\ UNCHANGED <<size, modifiedFiles, deletedPaths, storage, backend, fsType, others>>

----------------------------------------------------------------------------
(* Construction of a new Mirror (reload) *)

\* #cleanupDeletedFiles on the map m; currentFiles is read once
cleanupDeletedFiles(st, deleted) ==
    LET currentFiles == st.files
        exact  == {d \in deleted : d \in DOMAIN currentFiles}
        nested(d) == Descendants(currentFiles, d)
        gone   == exact \cup UNION {nested(d) : d \in deleted}
        count(d) == (IF IsFile(currentFiles, d) THEN 1 ELSE 0)
                    + Cardinality({q \in nested(d) : currentFiles[q].type = "file"})
        RECURSIVE total(_)
        total(S) == IF S = {} THEN 0
                    ELSE LET d == CHOOSE x \in S : TRUE IN count(d) + total(S \ {d})
        unledger == UNION {{q \in nested(d) : currentFiles[q].type = "file"} : d \in deleted}
    IN  [files |-> [q \in DOMAIN currentFiles \ gone |-> currentFiles[q]],
         size  |-> st.size - total(deleted),
         modifiedFiles |-> [q \in DOMAIN st.modifiedFiles \ unledger |-> st.modifiedFiles[q]]]

\* the page is reloaded: a new FilesStore is constructed, then #init runs
reconstruct ==
    LET loaded == loadDeletedPaths(storage)
        st == cleanupDeletedFiles([files |-> EmptyMap, size |-> 0, modifiedFiles |-> EmptyMap], loaded)
    IN  /\ deletedPaths' = loaded
        /\ files' = st.files
        /\ size' = st.size
        /\ modifiedFiles' = st.modifiedFiles
        /\ loads' = {}
        /\ backend' = IF fsType = OPFS THEN backend ELSE EmptyMap
        /\ last' = Op("constructor", <<>>, Empty, TRUE)
        /\ watchers' = init_watchPath(NoWatchers, fsType)
        /\ UNCHANGED <<storage, fsType, watchVars, services>>

\* the file system type is changed in the settings: the subscriber of
\* fileSystemTypeStore replaces #fileSystem and runs #init again
fileSystemTypeChanged ==
    LET st == cleanupDeletedFiles([files |-> files, size |-> size, modifiedFiles |-> modifiedFiles],
                                  deletedPaths)
    IN  /\ fsType' = IF fsType = OPFS THEN WEB_CONTAINER ELSE OPFS
        /\ backend' \in BackendTrees
        /\ st.size >= -MaxSize
        /\ files' = st.files
        /\ size' = st.size
        /\ modifiedFiles' = st.modifiedFiles
        /\ last' = Op("fileSystemTypeChanged", <<>>, Empty, TRUE)
        /\ openWatchers(watchers) < MaxWatchers
        /\ watchers' = init_watchPath(watchers, fsType')
        /\ UNCHANGED <<deletedPaths, storage, loads, watchVars, services>>

Next ==
    \/ createFile
    \/ saveFile
    \/ createFolder
    \/ deleteFile
    \/ deleteFolder
    \/ resetFileModifications
    \/ processEventBuffer
    \/ loadRead
    \/ loadResolve
    \/ reconstruct

Spec == Init /\ [][Next]_vars

\* the Mirror in a session in which the file system type is changed
NextSwitch ==
    \/ Next
    \/ fileSystemTypeChanged

SpecSwitch == Init /\ [][NextSwitch]_vars

----------------------------------------------------------------------------
(* pathUtils of the Persistent Backend Adapter *)

\* replace(/\/+/g, '/')
RECURSIVE collapseSeparators(_)
collapseSeparators(path) ==
    IF Len(path) < 2 THEN path
    ELSE IF path[1] = "/" /\ path[2] = "/" THEN collapseSeparators(Tail(path))
    ELSE <<path[1]>> \o collapseSeparators(Tail(path))

\* replace(/^\//, '')
dropLeading(path) == IF Len(path) > 0 /\ path[1] = "/" THEN Tail(path) ELSE path
\* mutant: the separator at the end is kept
dropTrailing_kept(path) == path

\* replace(/\/$/, '')
dropTrailing(path) ==
    IF Len(path) > 0 /\ path[Len(path)] = "/" THEN SubSeq(path, 1, Len(path) - 1) ELSE path

normalize(path) == dropTrailing(dropLeading(collapseSeparators(path)))

join(a, b) == normalize(a \o <<"/">> \o b)

\* pathUtils.dirname / basename: around the last separator of the normalized path
pathUtils_dirname(path) ==
    LET normalized == normalize(path)
        lastSeparatorIndex == LastSlash(normalized, Len(normalized))
    IN  IF lastSeparatorIndex = 0 THEN <<>> ELSE SubSeq(normalized, 1, lastSeparatorIndex - 1)

pathUtils_basename(path) ==
    LET normalized == normalize(path)
        lastSeparatorIndex == LastSlash(normalized, Len(normalized))
    IN  SubSeq(normalized, lastSeparatorIndex + 1, Len(normalized))

isRoot(path) == normalize(path) = <<>>

\* pathUtils.isValid: !path.includes('..')
isValid(path) == ~\E i \in 1..(Len(path) - 1) : path[i] = "." /\ path[i + 1] = "."

\* normalized.split('/') of a normalized path; [] for ''
RECURSIVE splitNormalized(_)
splitNormalized(normalized) ==
    IF normalized = <<>> THEN <<>>
    ELSE LET i == LastSlash(normalized, Len(normalized))
         IN  IF i = 0 THEN <<normalized>>
             ELSE Append(splitNormalized(SubSeq(normalized, 1, i - 1)),
                         SubSeq(normalized, i + 1, Len(normalized)))

split(path) == splitNormalized(normalize(path))

----------------------------------------------------------------------------
(* The origin private file system below the root handle, and OPFSService *)

\* the entry name in the directory at (the root for <<>>)
Child(at, name) == IF at = <<>> THEN name ELSE at \o <<"/">> \o name

\* the names for which the platform rejects with a TypeError
Dot == <<".">>
DotDot == <<".", ".">>
validName(name) == name \notin {<<>>, Dot, DotDot}

NoFailure == "none"
\* the native failures: the four kinds handleFileSystemError names, and others
NotFoundError == "NotFoundError"
NotAllowedError == "NotAllowedError"
QuotaExceededError == "QuotaExceededError"
TypeError == "TypeError"
TypeMismatchError == "TypeMismatchError"
InvalidModificationError == "InvalidModificationError"

\* how a handle is reached, or not: the code thrown, the tree left, the entry
\* reached and the native failure behind the code
Handle(code, tree, at, raised) == [code |-> code, tree |-> tree, at |-> at, raised |-> raised]
\* how a call ends: the code thrown or "ok", the tree left, the native failure
\* behind the code and what is returned
Out(code, tree, raised, value) == [code |-> code, tree |-> tree, raised |-> raised, value |-> value]

\* the catch of opfsUtils.getFileHandle and getDirectoryHandle
handleCode(name) == IF name = NotFoundError THEN "NOT_FOUND" ELSE "FILESYSTEM_ERROR"

\* opfsUtils.handleFileSystemError for a native failure
handleFileSystemError(name) ==
    CASE name = NotFoundError -> "NOT_FOUND"
      [] name = NotAllowedError -> "PERMISSION_DENIED"
      [] name = QuotaExceededError -> "QUOTA_EXCEEDED"
      [] name = TypeError -> "INVALID_PATH"
      [] OTHER -> "FILESYSTEM_ERROR"

\* mutant: every walk creates what is missing
RECURSIVE walk_creating(_, _, _, _)
walk_creating(tree, at, segments, create) ==
    IF segments = <<>> THEN Handle("ok", tree, at, NoFailure)
    ELSE LET next == Child(at, Head(segments)) IN
         IF ~validName(Head(segments)) THEN Handle(handleCode(TypeError), tree, at, TypeError)
         ELSE IF HasDir(tree, next) THEN walk_creating(tree, next, Tail(segments), create)
         ELSE IF HasFile(tree, next) THEN Handle(handleCode(TypeMismatchError), tree, at, TypeMismatchError)
         ELSE walk_creating(SetKey(tree, next, Dir), next, Tail(segments), create)

\* the loop over the segments in opfsUtils.getFileHandle and getDirectoryHandle:
\* currentDir.getDirectoryHandle(segment, {create}). The platform rejects with
\* TypeError for '.' and '..', NotFoundError for a missing entry and
\* TypeMismatchError for a file where a directory is asked for.
RECURSIVE walk(_, _, _, _)
walk(tree, at, segments, create) ==
    IF segments = <<>> THEN Handle("ok", tree, at, NoFailure)
    ELSE LET next == Child(at, Head(segments)) IN
         IF ~validName(Head(segments)) THEN Handle(handleCode(TypeError), tree, at, TypeError)
         ELSE IF HasDir(tree, next) THEN walk(tree, next, Tail(segments), create)
         ELSE IF HasFile(tree, next) THEN Handle(handleCode(TypeMismatchError), tree, at, TypeMismatchError)
         ELSE IF create THEN walk(SetKey(tree, next, Dir), next, Tail(segments), create)
         ELSE Handle(handleCode(NotFoundError), tree, at, NotFoundError)

getDirectoryHandle(tree, path, create) ==
    IF isRoot(path) THEN Handle("ok", tree, <<>>, NoFailure)
    ELSE walk(tree, <<>>, split(path), create)

\* opfsUtils.getFileHandle: no segment is INVALID_PATH; the walk over the
\* parents, then currentDir.getFileHandle(fileName, options)
getFileHandle(tree, path, create) ==
    LET segments == split(path) IN
    IF segments = <<>> THEN Handle("INVALID_PATH", tree, <<>>, NoFailure)
    ELSE LET dir      == walk(tree, <<>>, SubSeq(segments, 1, Len(segments) - 1), create)
             fileName == segments[Len(segments)]
             file     == Child(dir.at, fileName)
         IN  IF dir.code # "ok" THEN dir
             ELSE IF ~validName(fileName)
                  THEN Handle(handleCode(TypeError), dir.tree, dir.at, TypeError)
             ELSE IF HasDir(dir.tree, file)
                  THEN Handle(handleCode(TypeMismatchError), dir.tree, dir.at, TypeMismatchError)
             ELSE IF HasFile(dir.tree, file) THEN Handle("ok", dir.tree, file, NoFailure)
             ELSE IF create THEN Handle("ok", SetKey(dir.tree, file, Data(<<>>)), file, NoFailure)
             ELSE Handle(handleCode(NotFoundError), dir.tree, dir.at, NotFoundError)

\* OPFSService.writeFile and createFile: getFileHandle with create, then
\* writeFileContent
writeFileOutcome(tree, path, bytes) ==
    LET fileHandle == getFileHandle(tree, path, TRUE) IN
    IF fileHandle.code # "ok"
    THEN Out(fileHandle.code, fileHandle.tree, fileHandle.raised, "none")
    ELSE Out("ok", SetKey(fileHandle.tree, fileHandle.at, Data(bytes)), NoFailure, "none")

createDirectoryOutcome(tree, path) ==
    LET dir == getDirectoryHandle(tree, path, TRUE)
    IN  Out(dir.code, dir.tree, dir.raised, "none")

\* FileSystemDirectoryHandle.removeEntry(name, {recursive}) in the directory
\* at, behind handleFileSystemError: TypeError for a refused name,
\* NotFoundError for a missing entry, InvalidModificationError for a directory
\* with children when recursive is not true; handleFileSystemError has no case
\* for the latter
removeEntry(tree, at, name, recursive) ==
    LET entry == Child(at, name) IN
    IF ~validName(name) THEN Out(handleFileSystemError(TypeError), tree, TypeError, "none")
    ELSE IF entry \notin DOMAIN tree
         THEN Out(handleFileSystemError(NotFoundError), tree, NotFoundError, "none")
    ELSE IF Descendants(tree, entry) # {} /\ recursive # "true"
         THEN Out(handleFileSystemError(InvalidModificationError), tree,
                  InvalidModificationError, "none")
    ELSE Out("ok", rm(tree, entry), NoFailure, "none")

\* mutant: the call goes on to the parent and removes the entry, the root
\* included (every entry below it)
deleteDirectoryOutcome_noRootCheck(tree, path, recursive) ==
    IF isRoot(path)
    THEN IF tree # EmptyMap /\ recursive # "true"
         THEN Out("FILESYSTEM_ERROR", tree, InvalidModificationError, "none")
         ELSE Out("ok", EmptyMap, NoFailure, "none")
    ELSE LET parentDir == getDirectoryHandle(tree, pathUtils_dirname(path), FALSE)
         IN  IF parentDir.code # "ok" THEN Out(parentDir.code, tree, parentDir.raised, "none")
             ELSE removeEntry(tree, parentDir.at, pathUtils_basename(path), recursive)

\* OPFSService.deleteDirectory behind the root check of the service
deleteDirectoryOutcome(tree, path, recursive) ==
    IF isRoot(path) THEN Out("PERMISSION_DENIED", tree, NoFailure, "none")
    ELSE LET parentDir == getDirectoryHandle(tree, pathUtils_dirname(path), FALSE)
         IN  IF parentDir.code # "ok" THEN Out(parentDir.code, tree, parentDir.raised, "none")
             ELSE removeEntry(tree, parentDir.at, pathUtils_basename(path), recursive)

\* OPFSService.deleteFile: removeEntry without options
deleteFileOutcome(tree, path) ==
    LET dirHandle == getDirectoryHandle(tree, pathUtils_dirname(path), FALSE)
    IN  IF dirHandle.code # "ok" THEN Out(dirHandle.code, tree, dirHandle.raised, "none")
        ELSE removeEntry(tree, dirHandle.at, pathUtils_basename(path), "absent")

FileInfo(path, kind) ==
    [path |-> path, type |-> IF kind = "dir" THEN "directory" ELSE "file"]

\* the entries of the directory at
Children(tree, at) == {p \in DOMAIN tree : pathUtils_dirname(p) = at}

\* dirHandle.entries() yields the entries in an order the platform chooses
Orders(S) == {order \in [1..Cardinality(S) -> S] : Range(order) = S}

\* readDirectory(path, {recursive: true}): each entry, with path
\* join(path, name), followed by the listing of its subdirectory; the set of
\* the listings the iteration orders give. The walk is taken as one snapshot.
RECURSIVE readDirectory(_, _), readEntries(_, _, _, _)
readDirectory(tree, path) ==
    UNION {readEntries(tree, path, order, 1) : order \in Orders(Children(tree, normalize(path)))}
readEntries(tree, path, order, i) ==
    IF i > Len(order) THEN {<<>>}
    ELSE LET entryPath  == join(path, pathUtils_basename(order[i]))
             info       == FileInfo(entryPath, tree[order[i]].kind)
             subEntries == IF HasDir(tree, order[i]) THEN readDirectory(tree, entryPath)
                           ELSE {<<>>}
         IN  {<<info>> \o sub \o rest : sub \in subEntries,
                                         rest \in readEntries(tree, path, order, i + 1)}

\* readDirectory(path) without options: the entries of the directory alone
readDirectoryFlat(tree, path) ==
    {[i \in DOMAIN order |->
         FileInfo(join(path, pathUtils_basename(order[i])), tree[order[i]].kind)] :
       order \in Orders(Children(tree, normalize(path)))}

\* OPFSService.readDirectory: getDirectoryHandle without create, then the
\* entries
readDirectoryOutcome(tree, path) ==
    LET dirHandle == getDirectoryHandle(tree, path, FALSE)
    IN  Out(dirHandle.code, tree, dirHandle.raised,
            IF dirHandle.code = "ok" THEN "entries" ELSE "none")

\* U+FFFD, which Blob.text() puts in place of bytes that are not UTF-8
ReplacementCharacter == "U+FFFD"

\* readFileContent: file.text()
text(bytes) ==
    [i \in 1..Len(bytes) |->
        IF \E c \in Chars : CharCode[c] = bytes[i] THEN CodeChar(bytes[i])
        ELSE ReplacementCharacter]

\* OPFSService.readFile(path): getFileHandle without create, then text()
readFileOutcome(tree, path) ==
    LET fileHandle == getFileHandle(tree, path, FALSE) IN
    IF fileHandle.code # "ok"
    THEN [code |-> fileHandle.code, tree |-> tree, raised |-> fileHandle.raised,
          value |-> "none", content |-> <<>>]
    ELSE [code |-> "ok", tree |-> tree, raised |-> NoFailure,
          value |-> text(tree[fileHandle.at].bytes), content |-> text(tree[fileHandle.at].bytes)]

\* OPFSService.readFile(path, {binary: true}): readFileBinary
readFileBinaryOutcome(tree, path) ==
    LET fileHandle == getFileHandle(tree, path, FALSE) IN
    IF fileHandle.code # "ok" THEN Out(fileHandle.code, tree, fileHandle.raised, "none")
    ELSE Out("ok", tree, NoFailure, tree[fileHandle.at].bytes)

\* OPFSService.getFileInfo: the parent handle, then the name as a file and,
\* when that fails, as a directory; the failure of the second goes to
\* handleFileSystemError
getFileInfoOutcome(tree, path) ==
    LET parentDirHandle == getDirectoryHandle(tree, pathUtils_dirname(path), FALSE)
        name  == pathUtils_basename(path)
        entry == Child(parentDirHandle.at, name)
    IN  IF parentDirHandle.code # "ok"
        THEN Out(parentDirHandle.code, tree, parentDirHandle.raised, "none")
        ELSE IF ~validName(name) THEN Out(handleFileSystemError(TypeError), tree, TypeError, "none")
        ELSE IF HasFile(tree, entry) THEN Out("ok", tree, NoFailure, "file")
        ELSE IF HasDir(tree, entry) THEN Out("ok", tree, NoFailure, "directory")
        ELSE Out(handleFileSystemError(NotFoundError), tree, NotFoundError, "none")

\* OPFSService.exists: the same two probes; every failure is answered false
existsOutcome(tree, path) ==
    LET info == getFileInfoOutcome(tree, path)
    IN  Out("ok", tree, NoFailure, IF info.code = "ok" THEN "true" ELSE "false")

\* String.prototype.slice(n)
slice(s, n) == SubSeq(s, n + 1, Len(s))

\* OPFSService.copy: a file is read as bytes and written; for a directory the
\* destination is created, the source listed, and each entry copied to
\* join(destinationPath, entry.path.slice(sourcePath.length + 1)). The set of
\* the outcomes over the iteration orders.
RECURSIVE copyOutcomes(_, _, _), copyEntries(_, _, _, _, _)
copyOutcomes(tree, sourcePath, destinationPath) ==
    LET sourceInfo == getFileInfoOutcome(tree, sourcePath) IN
    IF sourceInfo.code # "ok" THEN {sourceInfo}
    ELSE IF sourceInfo.value = "file"
         THEN {writeFileOutcome(tree, destinationPath,
                                readFileBinaryOutcome(tree, sourcePath).value)}
    ELSE LET made == createDirectoryOutcome(tree, destinationPath) IN
         IF made.code # "ok" THEN {made}
         ELSE UNION {copyEntries(made.tree, sourcePath, destinationPath, entries, 1) :
                        entries \in readDirectoryFlat(made.tree, sourcePath)}
copyEntries(tree, sourcePath, destinationPath, entries, i) ==
    IF i > Len(entries) THEN {Out("ok", tree, NoFailure, "none")}
    ELSE LET relativeDestPath ==
                 join(destinationPath, slice(entries[i].path, Len(sourcePath) + 1))
         IN  UNION {IF copied.code # "ok" THEN {copied}
                    ELSE copyEntries(copied.tree, sourcePath, destinationPath, entries, i + 1) :
                       copied \in copyOutcomes(tree, entries[i].path, relativeDestPath)}

\* OPFSService.move: copy, then deleteFile(sourcePath) and, when that is
\* rejected, deleteDirectory(sourcePath, options)
moveAfter(copied, sourcePath, recursive) ==
    IF copied.code # "ok" THEN copied
    ELSE LET deleted == deleteFileOutcome(copied.tree, sourcePath)
         IN  IF deleted.code = "ok" THEN deleted
             ELSE deleteDirectoryOutcome(copied.tree, sourcePath, recursive)
moveOutcomes(tree, sourcePath, destinationPath, recursive) ==
    {moveAfter(copied, sourcePath, recursive) :
        copied \in copyOutcomes(tree, sourcePath, destinationPath)}

\* paths and arguments of the calls
P_d == <<"d">>
P_f == <<"d", "/", "f">>
P_e == <<"e">>
P_g == <<"g">>
EntryPaths == {P_d, P_f, P_e}
RootSpellings == {<<>>, <<"/">>, <<"/", "/">>}
RecursiveOptions == {"true", "false", "absent"}
\* another spelling of d/f
P_f_spelled == <<"/", "d", "/", "/", "f", "/">>
\* paths with a '..' segment: '..' and 'g/../e'
P_up == DotDot
P_g_up_e == <<"g", "/", ".", ".", "/", "e">>
DottedPaths == {P_up, P_g_up_e}
\* paths read and probed
ProbePaths == EntryPaths \cup {<<>>, P_f_spelled} \cup DottedPaths
\* file contents held by the origin private file system: text, and a byte
\* that is not UTF-8
FileBytes == {<<120>>, <<255>>}
\* the content the calls of the service write
ServiceBytes == {<<120>>}

\* a native call of the platform rejects for a reason outside the tree: in the
\* walk to the handle (stage handle), in writeFileContent or readFileContent
\* (stage content), or in a call the service makes itself inside its try block
\* (stage entry)
NoFault == [stage |-> "none", name |-> NoFailure]
Fault(stage, name) == [stage |-> stage, name |-> name]
HandleFaults == {Fault("handle", NotAllowedError)}
ContentFaults == {Fault("content", QuotaExceededError)}
EntryFaults == {Fault("entry", NotAllowedError)}

\* what a call does: its outcome when no native call rejects from outside,
\* whether opfsUtils makes a native call for the handle, how the handle is
\* reached, and the stage that follows the handle
Plan(natural, handleCalls, handled, later) ==
    [natural |-> natural, handleCalls |-> handleCalls, handled |-> handled, later |-> later]

canStrike(plan, fault) ==
    \/ fault = NoFault
    \/ fault.stage = "handle" /\ plan.handleCalls
    \/ fault.stage # "handle" /\ fault.stage = plan.later /\ plan.handled.code = "ok"

\* the outcome with the fault: the catch of opfsUtils for the handle,
\* FileSystemError.system in writeFileContent and readFileContent,
\* handleFileSystemError for the calls of the service itself
struck(tree, plan, fault) ==
    CASE fault.stage = "none" -> plan.natural
      [] fault.stage = "handle" -> Out(handleCode(fault.name), tree, fault.name, "none")
      [] fault.stage = "content" -> Out("FILESYSTEM_ERROR", plan.handled.tree, fault.name, "none")
      [] fault.stage = "entry" ->
            Out(handleFileSystemError(fault.name), plan.handled.tree, fault.name, "none")

writePlan(tree, path, bytes) ==
    Plan(writeFileOutcome(tree, path, bytes), split(path) # <<>>,
         getFileHandle(tree, path, TRUE), "content")
readPlan(tree, path) ==
    LET read == readFileOutcome(tree, path)
    IN  Plan(Out(read.code, read.tree, read.raised, read.value), split(path) # <<>>,
             getFileHandle(tree, path, FALSE), "content")
\* createWriteStream: getFileHandle with create, then createWritable()
writeStreamPlan(tree, path) ==
    LET fileHandle == getFileHandle(tree, path, TRUE)
    IN  Plan(Out(fileHandle.code, fileHandle.tree, fileHandle.raised,
                 IF fileHandle.code = "ok" THEN "stream" ELSE "none"),
             split(path) # <<>>, fileHandle, "entry")
\* createReadStream: getFileHandle without create, then getFile()
readStreamPlan(tree, path) ==
    LET fileHandle == getFileHandle(tree, path, FALSE)
    IN  Plan(Out(fileHandle.code, tree, fileHandle.raised,
                 IF fileHandle.code = "ok" THEN "stream" ELSE "none"),
             split(path) # <<>>, fileHandle, "entry")
createDirectoryPlan(tree, path) ==
    Plan(createDirectoryOutcome(tree, path), ~isRoot(path),
         getDirectoryHandle(tree, path, TRUE), "none")
deleteFilePlan(tree, path) ==
    Plan(deleteFileOutcome(tree, path), ~isRoot(pathUtils_dirname(path)),
         getDirectoryHandle(tree, pathUtils_dirname(path), FALSE), "entry")
deleteDirectoryPlan(tree, path, recursive) ==
    IF isRoot(path)
    THEN Plan(deleteDirectoryOutcome(tree, path, recursive), FALSE,
              Handle("PERMISSION_DENIED", tree, <<>>, NoFailure), "none")
    ELSE Plan(deleteDirectoryOutcome(tree, path, recursive), ~isRoot(pathUtils_dirname(path)),
              getDirectoryHandle(tree, pathUtils_dirname(path), FALSE), "entry")
readDirectoryPlan(tree, path) ==
    Plan(readDirectoryOutcome(tree, path), ~isRoot(path),
         getDirectoryHandle(tree, path, FALSE), "entry")
getFileInfoPlan(tree, path) ==
    Plan(getFileInfoOutcome(tree, path), ~isRoot(pathUtils_dirname(path)),
         getDirectoryHandle(tree, pathUtils_dirname(path), FALSE), "entry")
\* exists answers false where getFileInfo throws
existsPlan(tree, path) ==
    Plan(existsOutcome(tree, path), ~isRoot(pathUtils_dirname(path)),
         getDirectoryHandle(tree, pathUtils_dirname(path), FALSE), "entry")
existsStruck(tree, plan, fault) ==
    IF fault = NoFault THEN plan.natural ELSE Out("ok", tree, NoFailure, "false")

Call(op, path, recursive, code) ==
    [op |-> op, path |-> path, recursive |-> recursive, code |-> code,
     value |-> "none", raised |-> NoFailure]

\* 'FileSystem not initialized': a plain Error thrown before the try block
NotInitialized == "Error"

\* ensureClient() and the check of this.root that open the methods
checked(out) ==
    IF ~window THEN Out("ENVIRONMENT_ERROR", opfs, NoFailure, "none")
    ELSE IF ~root THEN Out(NotInitialized, opfs, NoFailure, "none")
    ELSE out

\* a call of the service: how it ends and what it leaves
serviceCall(op, path, recursive, out) ==
    /\ result' = [op |-> op, path |-> path, recursive |-> recursive,
                  code |-> checked(out).code, value |-> checked(out).value,
                  raised |-> checked(out).raised]
    /\ opfs' = checked(out).tree
    /\ UNCHANGED <<root, window, permission, mirrorVars, syncVars>>

\* the call with a native failure from outside; ensureClient and the check of
\* this.root come before any native call
serviceCallStruck(op, path, recursive, plan, fault) ==
    /\ canStrike(plan, fault)
    /\ fault # NoFault => window /\ root
    /\ serviceCall(op, path, recursive, struck(opfs, plan, fault))

PermissionStates == {"granted", "denied"}

\* initialize(): nothing without window; getDirectory() sets this.root;
\* requestPermission throws PERMISSION_DENIED inside its own try, whose catch
\* wraps it in FileSystemError.system; the catch of initialize wraps again
initialize ==
    /\ \/ /\ ~window
          /\ result' = Call("initialize", <<>>, "absent", "ok")
          /\ UNCHANGED <<root, permission>>
       \/ /\ window
          /\ result' = [Call("initialize", <<>>, "absent", "FILESYSTEM_ERROR")
                            EXCEPT !.raised = "SecurityError"]
          /\ UNCHANGED <<root, permission>>
       \/ /\ window
          /\ permission = "granted"
          /\ root' = TRUE
          /\ result' = Call("initialize", <<>>, "absent", "ok")
          /\ UNCHANGED permission
       \/ /\ window
          /\ permission # "granted"
          /\ root' = TRUE
          /\ \E newResult \in PermissionStates :
                /\ permission' = newResult
                /\ result' = Call("initialize", <<>>, "absent",
                                  IF newResult = "granted" THEN "ok" ELSE "FILESYSTEM_ERROR")
    /\ UNCHANGED <<opfs, window, mirrorVars, syncVars>>

\* cleanup(): this.root = null
cleanup ==
    /\ root' = FALSE
    /\ result' = Call("cleanup", <<>>, "absent", "ok")
    /\ UNCHANGED <<opfs, window, permission, mirrorVars, syncVars>>

\* watch(): returns a function
watch ==
    /\ result' = [Call("watch", <<>>, "absent", "ok") EXCEPT !.value = "function"]
    /\ UNCHANGED <<opfs, root, window, permission, mirrorVars, syncVars>>

service_createFile ==
    \E path \in {P_e, P_g_up_e}, bytes \in ServiceBytes,
       fault \in HandleFaults \cup ContentFaults \cup {NoFault} :
        serviceCallStruck("createFile", path, "absent", writePlan(opfs, path, bytes), fault)

service_writeFile ==
    \E path \in {P_f, P_e, P_f_spelled, P_up}, bytes \in ServiceBytes,
       fault \in HandleFaults \cup {NoFault} :
        serviceCallStruck("writeFile", path, "absent", writePlan(opfs, path, bytes), fault)

service_readFile ==
    \E path \in ProbePaths, fault \in ContentFaults \cup {NoFault} :
        serviceCallStruck("readFile", path, "absent", readPlan(opfs, path), fault)

service_createWriteStream ==
    \E path \in {P_e}, fault \in EntryFaults \cup {NoFault} :
        serviceCallStruck("createWriteStream", path, "absent", writeStreamPlan(opfs, path), fault)

service_createReadStream ==
    \E path \in {P_f, P_e}, fault \in EntryFaults \cup {NoFault} :
        serviceCallStruck("createReadStream", path, "absent", readStreamPlan(opfs, path), fault)

service_exists ==
    \E path \in ProbePaths, fault \in HandleFaults \cup EntryFaults \cup {NoFault} :
        /\ canStrike(existsPlan(opfs, path), fault)
        /\ fault # NoFault => window /\ root
        /\ serviceCall("exists", path, "absent", existsStruck(opfs, existsPlan(opfs, path), fault))

service_getFileInfo ==
    \E path \in {P_d, P_f, <<>>}, fault \in EntryFaults \cup {NoFault} :
        serviceCallStruck("getFileInfo", path, "absent", getFileInfoPlan(opfs, path), fault)

service_readDirectory ==
    \E path \in {P_d, P_f, <<>>}, fault \in EntryFaults \cup {NoFault} :
        serviceCallStruck("readDirectory", path, "absent", readDirectoryPlan(opfs, path), fault)

service_createDirectory ==
    \E path \in {P_d, P_e, P_g_up_e}, fault \in HandleFaults \cup {NoFault} :
        serviceCallStruck("createDirectory", path, "absent", createDirectoryPlan(opfs, path), fault)

service_deleteFile ==
    \E path \in EntryPaths \cup {P_f_spelled} \cup DottedPaths,
       fault \in EntryFaults \cup {NoFault} :
        serviceCallStruck("deleteFile", path, "absent", deleteFilePlan(opfs, path), fault)

service_deleteDirectory ==
    \E path \in EntryPaths \cup RootSpellings \cup {P_up}, recursive \in RecursiveOptions :
        serviceCallStruck("deleteDirectory", path, recursive,
                          deleteDirectoryPlan(opfs, path, recursive), NoFault)

\* the sources and destinations of copy and move
SourcePaths == {P_d, P_f, P_e}
DestinationPaths == {P_e, P_g}

service_copy ==
    \E sourcePath \in SourcePaths, destinationPath \in DestinationPaths :
        \E out \in copyOutcomes(opfs, sourcePath, destinationPath) :
            serviceCall("copy", sourcePath, "absent",
                        Out(out.code, out.tree, out.raised, destinationPath))

service_move ==
    \E sourcePath \in SourcePaths, destinationPath \in DestinationPaths,
       recursive \in {"true", "absent"} :
        \E out \in moveOutcomes(opfs, sourcePath, destinationPath, recursive) :
            serviceCall("move", sourcePath, recursive,
                        Out(out.code, out.tree, out.raised, destinationPath))

InitAdapter ==
    /\ opfs = EmptyMap
    /\ root = FALSE
    /\ result = NoCall
    /\ window \in BOOLEAN
    /\ permission \in PermissionStates
    /\ InitMirror /\ fsType = OPFS
    /\ SyncOff

NextAdapter ==
    \/ initialize
    \/ cleanup
    \/ watch
    \/ service_createFile
    \/ service_writeFile
    \/ service_readFile
    \/ service_createWriteStream
    \/ service_createReadStream
    \/ service_exists
    \/ service_getFileInfo
    \/ service_readDirectory
    \/ service_createDirectory
    \/ service_deleteFile
    \/ service_deleteDirectory
    \/ service_copy
    \/ service_move

SpecAdapter == InitAdapter /\ [][NextAdapter]_vars

----------------------------------------------------------------------------
(* What syncOPFS hands to the sandbox *)

\* the UTF-8 bytes webcontainer.fs.writeFile stores for a string
RECURSIVE utf8(_)
utf8(content) ==
    IF content = <<>> THEN <<>>
    ELSE (IF Head(content) = ReplacementCharacter THEN <<239, 191, 189>>
          ELSE <<CharCode[Head(content)]>>) \o utf8(Tail(content))

----------------------------------------------------------------------------
(* What syncOPFS writes: webcontainer.fs *)

\* workdirName of the sandbox
WORK_DIR_NAME == <<"w">>

\* path.join of two relative paths without '.', '..' or doubled separators
path_join(a, b) == a \o <<"/">> \o b

\* the directories above p
Parents(p) == {SubSeq(p, 1, i - 1) : i \in {j \in 2..Len(p) : p[j] = "/"}}

\* fs.mkdir(p, {recursive: true}) rejects when a file stands at p or above it
fs_mkdirCan(tree, p) == \A q \in Parents(p) \cup {p} : ~HasFile(tree, q)
fs_mkdir(tree, p) ==
    [q \in DOMAIN tree \cup Parents(p) \cup {p} |->
        IF q \in Parents(p) \cup {p} THEN Dir ELSE tree[q]]

\* mutant: the write empties the parent directory first
fs_writeFile_replacing(tree, p, bytes) ==
    LET kept == {q \in DOMAIN tree : ~StartsWith(q, dirname(p) \o <<"/">>)}
    IN  [q \in kept \cup {p} |-> IF q = p THEN Data(bytes) ELSE tree[q]]

\* fs.writeFile(p, content) rejects when p is a directory or its parent is missing
fs_writeFileCan(tree, p) == ~HasDir(tree, p) /\ HasDir(tree, dirname(p))
fs_writeFile(tree, p, bytes) == SetKey(tree, p, Data(bytes))

----------------------------------------------------------------------------
(* The Synchronizer: syncOPFS, its initial run and its interval *)

\* executions of syncOPFS in progress at once
MaxSyncs == 2
\* changes made to the two trees from outside the Synchronizer in one behaviour
MaxChanges == 2

Unknown == [known |-> FALSE]
Known(tree) == [known |-> TRUE, tree |-> tree]

directoriesOf(allFiles) == SelectSeq(allFiles, LAMBDA file : file.type = "directory")
filesOf(allFiles) == SelectSeq(allFiles, LAMBDA file : file.type = "file")

Position(pc, i) == [pc |-> pc, i |-> i]

\* mutant: the loop over the files runs first, the loop over the directories
\* only when there is no file
entry_filesFirst(allFiles) ==
    IF filesOf(allFiles) # <<>> THEN Position("readFile", 1)
    ELSE IF directoriesOf(allFiles) # <<>> THEN Position("mkdir", 1)
    ELSE Position("done", 0)

\* the first await after the listing: the loop over the directories, then the
\* loop over the files
entry(allFiles) ==
    IF directoriesOf(allFiles) # <<>> THEN Position("mkdir", 1)
    ELSE IF filesOf(allFiles) # <<>> THEN Position("readFile", 1)
    ELSE Position("done", 0)

\* the await that follows the one that has just resolved
afterStep(s) ==
    CASE s.pc = "mkdir" ->
            IF s.i < Len(directoriesOf(s.allFiles)) THEN Position("mkdir", s.i + 1)
            ELSE IF filesOf(s.allFiles) # <<>> /\ entry(s.allFiles).pc = "mkdir"
                 THEN Position("readFile", 1)
            ELSE Position("done", 0)
      [] s.pc = "readFile" -> Position("mkdirParent", s.i)
      [] s.pc = "mkdirParent" -> Position("writeFile", s.i)
      [] s.pc = "writeFile" ->
            IF s.i < Len(filesOf(s.allFiles)) THEN Position("readFile", s.i + 1)
            ELSE IF directoriesOf(s.allFiles) # <<>> /\ entry(s.allFiles).pc = "readFile"
                 THEN Position("mkdir", 1)
            ELSE Position("done", 0)

\* one execution of syncOPFS. made, fresh and base are kept for the properties:
\* the directories this execution has made, whether no tree has been changed
\* from outside since the listing, and the sandbox tree left by the execution
\* before it.
Execution(first, allFiles, base) ==
    [first |-> first, allFiles |-> allFiles, pc |-> "done", i |-> 0, content |-> <<>>,
     made |-> {}, fresh |-> TRUE, base |-> base]

Remove(list, k) == SubSeq(list, 1, k - 1) \o SubSeq(list, k + 1, Len(list))
stale(list) == [k \in DOMAIN list |-> [list[k] EXCEPT !.fresh = FALSE, !.base = Unknown]]
unbased(list) == [k \in DOMAIN list |-> [list[k] EXCEPT !.base = Unknown]]

\* the promise of execution s settles. The initial run is awaited by the boot
\* chain: fulfilled, the chain goes on to setInterval; rejected, the chain is
\* rejected. A run started by the interval has its rejection logged.
finish(s, rest, ok) ==
    /\ syncs' = IF ok /\ s.fresh THEN rest ELSE unbased(rest)
    /\ outcome' = IF ok THEN "ok" ELSE IF s.first THEN "rejected" ELSE "logged"
    /\ interval' = IF s.first THEN (IF ok THEN "installed" ELSE "aborted") ELSE interval
    /\ settled' = IF ok /\ s.fresh THEN Known(wcfs') ELSE Unknown

proceed(k, s) ==
    LET next == afterStep(s) IN
    IF next.pc = "done" THEN finish(s, Remove(syncs, k), TRUE)
    ELSE /\ syncs' = [syncs EXCEPT ![k] = [s EXCEPT !.pc = next.pc, !.i = next.i]]
         /\ UNCHANGED <<interval, outcome, settled>>

reject(k) ==
    /\ wcfs' = wcfs
    /\ finish(syncs[k], Remove(syncs, k), FALSE)

synchronizerFrame == UNCHANGED <<opfs, changes, mirrorVars, adapterVars>>

\* syncOPFS() is called: the listing
start(first) ==
    \E allFiles \in readDirectory(opfs, <<"/">>) :
        LET s  == Execution(first, allFiles, settled)
            at == entry(allFiles)
        IN  /\ wcfs' = wcfs
            /\ IF at.pc = "done" THEN finish(s, syncs, TRUE)
               ELSE /\ syncs' = Append(syncs, [s EXCEPT !.pc = at.pc, !.i = at.i])
                    /\ interval' = IF first THEN "booting" ELSE interval
                    /\ UNCHANGED <<outcome, settled>>
            /\ synchronizerFrame

\* the boot chain reaches 'await syncOPFS()'
initialSync == interval = "boot" /\ start(TRUE)

\* the interval callback runs, whether or not an execution is in progress
intervalSync == interval = "installed" /\ Len(syncs) < MaxSyncs /\ start(FALSE)

\* await webcontainer.fs.mkdir(targetPath, {recursive: true}) of the first loop
mkdirStep(k) ==
    /\ syncs[k].pc = "mkdir"
    /\ LET s == syncs[k]
           dir == directoriesOf(s.allFiles)[s.i]
           targetPath == path_join(WORK_DIR_NAME, dir.path)
       IN  IF fs_mkdirCan(wcfs, targetPath)
           THEN /\ wcfs' = fs_mkdir(wcfs, targetPath)
                /\ proceed(k, [s EXCEPT !.made = @ \cup {targetPath}])
           ELSE reject(k)
    /\ synchronizerFrame

\* await fileSystem.readFile(file.path)
readFileStep(k) ==
    /\ syncs[k].pc = "readFile"
    /\ LET s == syncs[k]
           file == filesOf(s.allFiles)[s.i]
           read == readFileOutcome(opfs, file.path)
       IN  IF read.code = "ok"
           THEN /\ wcfs' = wcfs
                /\ proceed(k, [s EXCEPT !.content = read.content])
           ELSE reject(k)
    /\ synchronizerFrame

\* await webcontainer.fs.mkdir(parentDir, {recursive: true})
mkdirParentStep(k) ==
    /\ syncs[k].pc = "mkdirParent"
    /\ LET s == syncs[k]
           file == filesOf(s.allFiles)[s.i]
           targetPath == path_join(WORK_DIR_NAME, file.path)
           parentDir == dirname(targetPath)
       IN  IF fs_mkdirCan(wcfs, parentDir)
           THEN /\ wcfs' = fs_mkdir(wcfs, parentDir)
                /\ proceed(k, [s EXCEPT !.made = @ \cup {parentDir}])
           ELSE reject(k)
    /\ synchronizerFrame

\* await webcontainer.fs.writeFile(targetPath, content)
writeFileStep(k) ==
    /\ syncs[k].pc = "writeFile"
    /\ LET s == syncs[k]
           file == filesOf(s.allFiles)[s.i]
           targetPath == path_join(WORK_DIR_NAME, file.path)
       IN  IF fs_writeFileCan(wcfs, targetPath)
           THEN /\ wcfs' = fs_writeFile(wcfs, targetPath, utf8(s.content))
                /\ proceed(k, [s EXCEPT !.content = <<>>])
           ELSE reject(k)
    /\ synchronizerFrame

syncMkdir == \E k \in DOMAIN syncs : mkdirStep(k)
syncReadFile == \E k \in DOMAIN syncs : readFileStep(k)
syncMkdirParent == \E k \in DOMAIN syncs : mkdirParentStep(k)
syncWriteFile == \E k \in DOMAIN syncs : writeFileStep(k)

\* the trees the origin private file system can hold over the entry paths
Nodes == {Dir} \cup {Data(bytes) : bytes \in FileBytes}
WellFormed(tree) ==
    \A p \in DOMAIN tree :
        /\ pathUtils_dirname(p) # <<>> => HasDir(tree, pathUtils_dirname(p))
        /\ p = P_f => HasFile(tree, p)
Trees == UNION {{tree \in [S -> Nodes] : WellFormed(tree)} : S \in SUBSET EntryPaths}

\* the persistent tree is changed by a foreground operation
persistentChanged(out) ==
    /\ changes < MaxChanges
    /\ out.code = "ok"
    /\ out.tree # opfs
    /\ opfs' = out.tree
    /\ syncs' = stale(syncs)
    /\ settled' = Unknown
    /\ changes' = changes + 1
    /\ UNCHANGED <<wcfs, interval, outcome, mirrorVars, adapterVars>>

persistentWrite ==
    \E path \in EntryPaths, bytes \in FileBytes :
        persistentChanged(writeFileOutcome(opfs, path, bytes))

persistentRemove ==
    \E path \in EntryPaths : persistentChanged(deleteDirectoryOutcome(opfs, path, "true"))

\* the working copy of the sandbox is emptied while the page stays
sandboxEmptied ==
    /\ changes < MaxChanges
    /\ wcfs # EmptyMap
    /\ wcfs' = EmptyMap
    /\ syncs' = stale(syncs)
    /\ settled' = Unknown
    /\ changes' = changes + 1
    /\ UNCHANGED <<opfs, interval, outcome, mirrorVars, adapterVars>>

\* the page is reloaded: a new sandbox is booted and the chain starts again
reload ==
    /\ changes < MaxChanges
    /\ interval # "boot"
    /\ wcfs' = EmptyMap
    /\ syncs' = <<>>
    /\ interval' = "boot"
    /\ outcome' = "none"
    /\ settled' = Unknown
    /\ changes' = changes + 1
    /\ UNCHANGED <<opfs, mirrorVars, adapterVars>>

\* the service is taken as initialised before the sandbox has booted
InitSync ==
    /\ opfs \in Trees
    /\ root = TRUE
    /\ result = NoCall
    /\ window = TRUE
    /\ permission = "granted"
    /\ wcfs = EmptyMap
    /\ syncs = <<>>
    /\ interval = "boot"
    /\ outcome = "none"
    /\ settled = Unknown
    /\ changes = 0
    /\ InitMirror /\ fsType = OPFS

NextSync ==
    \/ initialSync
    \/ intervalSync
    \/ syncMkdir
    \/ syncReadFile
    \/ syncMkdirParent
    \/ syncWriteFile
    \/ persistentWrite
    \/ persistentRemove
    \/ sandboxEmptied
    \/ reload

SpecSync == InitSync /\ [][NextSync]_vars

----------------------------------------------------------------------------
(* pathUtils applied to path strings *)

\* the characters of the path strings, and their greatest length
PathAlphabet == {"/", "a", "b", "."}
MaxPathLen == 5
PathStrings == UNION {[1..n -> PathAlphabet] : n \in 0..MaxPathLen}

\* pathUtils.normalize(p)
apply_normalize ==
    /\ result' = [result EXCEPT !.op = "normalize", !.value = normalize(result.path)]
    /\ UNCHANGED <<opfs, root, window, permission, mirrorVars, syncVars>>

\* pathUtils.join(pathUtils.normalize(p), '')
apply_join ==
    /\ result' = [result EXCEPT !.op = "join", !.value = join(normalize(result.path), <<>>)]
    /\ UNCHANGED <<opfs, root, window, permission, mirrorVars, syncVars>>

\* pathUtils.isRoot(p)
apply_isRoot ==
    /\ result' = [result EXCEPT !.op = "isRoot",
                                !.value = IF isRoot(result.path) THEN "true" ELSE "false"]
    /\ UNCHANGED <<opfs, root, window, permission, mirrorVars, syncVars>>

\* pathUtils.isValid(p)
apply_isValid ==
    /\ result' = [result EXCEPT !.op = "isValid",
                                !.value = IF isValid(result.path) THEN "true" ELSE "false"]
    /\ UNCHANGED <<opfs, root, window, permission, mirrorVars, syncVars>>

\* a path string, to which the functions are applied
InitPathUtils ==
    /\ \E p \in PathStrings : result = [NoCall EXCEPT !.path = p]
    /\ opfs = EmptyMap /\ root = FALSE /\ window = TRUE /\ permission = "granted"
    /\ InitMirror /\ fsType = OPFS
    /\ SyncOff

NextPathUtils ==
    \/ apply_normalize
    \/ apply_join
    \/ apply_isRoot
    \/ apply_isValid

SpecPathUtils == InitPathUtils /\ [][NextPathUtils]_vars

----------------------------------------------------------------------------
(* OPFSFileSystem and OPFSService called with paths as the callers spell them *)

\* OPFSFileSystem.normalizePath: the workdir prefix, then one leading slash
normalizePath(filePath) ==
    LET stripped == IF StartsWith(filePath, WORK_DIR)
                    THEN SubSeq(filePath, Len(WORK_DIR) + 1, Len(filePath))
                    ELSE filePath
    IN  IF Len(stripped) > 0 /\ stripped[1] = "/" THEN Tail(stripped) ELSE stripped

\* String.prototype.split('/')
RECURSIVE splitSeparator(_)
splitSeparator(s) ==
    LET i == LastSlash(s, Len(s))
    IN  IF i = 0 THEN <<s>>
        ELSE Append(splitSeparator(SubSeq(s, 1, i - 1)), SubSeq(s, i + 1, Len(s)))

\* OPFSFileSystem throws a plain Error for every failure
plainError(handle) == IF handle.code = "ok" THEN handle ELSE [handle EXCEPT !.code = "Error"]

\* the tree below the 'workspace' directory by position, and the backend tree
\* of that tree
inWorkspace(b) ==
    [p \in {SubSeq(q, Len(WORK_DIR) + 2, Len(q)) : q \in DOMAIN b} |-> b[WORK_DIR \o <<"/">> \o p]]
ofWorkspace(tree) ==
    [q \in {WORK_DIR \o <<"/">> \o p : p \in DOMAIN tree} |->
        tree[SubSeq(q, Len(WORK_DIR) + 2, Len(q))]]

\* OPFSFileSystem.getDirectoryFromPath
getDirectoryFromPath(tree, dirPath, create) ==
    LET normalizedPath == normalizePath(dirPath)
        parts == SelectSeq(splitSeparator(normalizedPath), LAMBDA part : part # <<>>)
    IN  IF normalizedPath \in {<<>>, <<"/">>, <<".">>} THEN Handle("ok", tree, <<>>, NoFailure)
        ELSE plainError(walk(tree, <<>>, parts, create))

\* OPFSFileSystem.getFileFromPath: the path is cut at its last slash
getFileFromPath(tree, filePath, create) ==
    LET normalizedPath == normalizePath(filePath)
        lastSlashIndex == LastSlash(normalizedPath, Len(normalizedPath))
        dirPath   == IF lastSlashIndex = 0 THEN <<>>
                     ELSE SubSeq(normalizedPath, 1, lastSlashIndex - 1)
        fileName  == SubSeq(normalizedPath, lastSlashIndex + 1, Len(normalizedPath))
        directory == getDirectoryFromPath(tree, dirPath, create)
        file      == Child(directory.at, fileName)
    IN  IF directory.code # "ok" THEN directory
        ELSE IF ~validName(fileName)
             THEN Handle("Error", directory.tree, directory.at, TypeError)
        ELSE IF HasDir(directory.tree, file)
             THEN Handle("Error", directory.tree, directory.at, TypeMismatchError)
        ELSE IF HasFile(directory.tree, file) THEN Handle("ok", directory.tree, file, NoFailure)
        ELSE IF create
             THEN Handle("ok", SetKey(directory.tree, file, Data(<<>>)), file, NoFailure)
        ELSE Handle("Error", directory.tree, directory.at, NotFoundError)

\* OPFSFileSystem.writeFile(filePath, content)
OPFSFileSystem_writeFile(b, filePath, bytes) ==
    LET fileHandle == getFileFromPath(inWorkspace(b), filePath, TRUE) IN
    IF fileHandle.code # "ok"
    THEN Out("Error", ofWorkspace(fileHandle.tree), fileHandle.raised, "none")
    ELSE Out("ok", ofWorkspace(SetKey(fileHandle.tree, fileHandle.at, Data(bytes))),
             NoFailure, "none")

\* OPFSFileSystem.readFile(filePath)
OPFSFileSystem_readFile(b, filePath) ==
    LET fileHandle == getFileFromPath(inWorkspace(b), filePath, FALSE) IN
    IF fileHandle.code # "ok" THEN Out("Error", b, fileHandle.raised, "none")
    ELSE Out("ok", b, NoFailure, inWorkspace(b)[fileHandle.at].bytes)

\* OPFSFileSystem.rm(filePath, options)
OPFSFileSystem_rm(b, filePath, recursive) ==
    LET normalizedPath == normalizePath(filePath)
        lastSlashIndex == LastSlash(normalizedPath, Len(normalizedPath))
        dirPath   == SubSeq(normalizedPath, 1, lastSlashIndex - 1)
        name      == SubSeq(normalizedPath, lastSlashIndex + 1, Len(normalizedPath))
        directory == IF lastSlashIndex = 0 THEN Handle("ok", inWorkspace(b), <<>>, NoFailure)
                     ELSE getDirectoryFromPath(inWorkspace(b), dirPath, FALSE)
        removed   == removeEntry(inWorkspace(b), directory.at, name, recursive)
    IN  IF directory.code # "ok" THEN Out("Error", b, directory.raised, "none")
        ELSE IF removed.code # "ok" THEN Out("Error", b, removed.raised, "none")
        ELSE Out("ok", ofWorkspace(removed.tree), NoFailure, "none")

\* spellings of the Mirror's file path /w/d/f: with a separator at the end,
\* with a separator twice, without the leading separator
F_trailing == F \o <<"/">>
F_repeated == D \o <<"/", "/", "f">>
F_relative == Tail(F)
BackendSpellings == {F, F_trailing, F_repeated, F_relative}

\* spellings of the service's file path d/f
P_f_rooted == <<"/">> \o P_f
P_f_repeated == <<"d", "/", "/", "f">>
ServiceSpellings == {P_f, P_f_spelled, P_f_rooted, P_f_repeated}

\* a call of the backend made by a user of OPFSFileSystem
backendCall(op, filePath, bytes, out) ==
    /\ backend' = out.tree
    /\ last' = Op(op, filePath, bytes, out.code = "ok")
    /\ UNCHANGED <<files, size, modifiedFiles, deletedPaths, storage, loads, fsType, others>>

backend_writeFile ==
    \E filePath \in BackendSpellings, bytes \in ServiceBytes :
        backendCall("backend.writeFile", filePath, bytes,
                    OPFSFileSystem_writeFile(backend, filePath, bytes))

backend_readFile ==
    \E filePath \in BackendSpellings :
        LET out == OPFSFileSystem_readFile(backend, filePath)
        IN  backendCall("backend.readFile", filePath,
                        IF out.code = "ok" THEN out.value ELSE <<>>, out)

backend_rm ==
    \E filePath \in BackendSpellings \cup {D}, recursive \in {"true", "absent"} :
        backendCall("backend.rm", filePath, <<>>, OPFSFileSystem_rm(backend, filePath, recursive))

\* the service initialised, the backend of the Mirror empty
InitSpelling ==
    /\ opfs = EmptyMap
    /\ root = TRUE
    /\ result = NoCall
    /\ window = TRUE
    /\ permission = "granted"
    /\ InitMirror /\ fsType = OPFS
    /\ SyncOff

NextSpelling ==
    \/ service_writeFile
    \/ service_readFile
    \/ service_exists
    \/ service_deleteFile
    \/ backend_writeFile
    \/ backend_readFile
    \/ backend_rm

SpecSpelling == InitSpelling /\ [][NextSpelling]_vars

----------------------------------------------------------------------------
(* The Mirror with a path that shares a folder's name as a prefix *)

\* a file next to the folder D whose path starts with the characters of D
Dx == D \o <<"x">>
PrefixFiles == {F, Dx}
PrefixEvents ==
    {Event(t, D, NoBuffer) : t \in {"add_dir", "remove_dir"}}
        \cup {Event("add_file", p, Buf(encode(<<"x">>))) : p \in PrefixFiles}

prefix_createFile == \E p \in PrefixFiles : createFileOk(p, <<"x">>)
prefix_saveFile == \E p \in PrefixFiles : saveFileOk(p, Empty)
prefix_createFolder == createFolderOk(D)
prefix_deleteFolder == deleteFolderOk(D)
prefix_processEventBuffer == \E ev \in PrefixEvents : processBatch(<<ev>>)

NextPrefix ==
    \/ prefix_createFile
    \/ prefix_saveFile
    \/ prefix_createFolder
    \/ prefix_deleteFolder
    \/ prefix_processEventBuffer

SpecPrefix == Init /\ [][NextPrefix]_vars

----------------------------------------------------------------------------
(* OPFSService.copy of a directory with a subdirectory *)

\* a subdirectory of d and a file in it
P_s == P_d \o <<"/", "s">>
P_sf == P_s \o <<"/", "f">>

\* spellings of the source directory d
P_d_rooted == <<"/">> \o P_d
P_d_trailing == P_d \o <<"/">>
SourceSpellings == {P_d, P_d_rooted, P_d_trailing}

copy_createDirectory ==
    \E path \in {P_d, P_s} :
        serviceCall("createDirectory", path, "absent", createDirectoryOutcome(opfs, path))

copy_writeFile ==
    \E path \in {P_f, P_sf}, bytes \in ServiceBytes :
        serviceCall("writeFile", path, "absent", writeFileOutcome(opfs, path, bytes))

copy_copy ==
    \E sourcePath \in SourceSpellings :
        \E out \in copyOutcomes(opfs, sourcePath, P_g) :
            serviceCall("copy", sourcePath, "absent", Out(out.code, out.tree, out.raised, P_g))

copy_deleteDirectory ==
    \E path \in {P_s, P_g} :
        serviceCall("deleteDirectory", path, "true", deleteDirectoryOutcome(opfs, path, "true"))

NextCopy ==
    \/ copy_createDirectory
    \/ copy_writeFile
    \/ copy_copy
    \/ copy_deleteDirectory

SpecCopy == InitSpelling /\ [][NextCopy]_vars

----------------------------------------------------------------------------
(* OPFSFileSystem.watchFile: one watcher on the file /w/d/f *)

\* the callback invocations kept in calls
MaxCalls == 2
\* contents written through the instance the file is watched on
WatchBytes == {<<120>>, <<121>>}

\* callback({type, filename}), and whether close() had returned before it
Invoked(type, closed) == [type |-> type, closed |-> closed]

\* readFile as part of a larger method: the cache after it
afterRead(cache, filePath, out) ==
    IF out.code = "ok" THEN SetKey(cache, filePath, out.value) ELSE cache

\* the body of the interval callback of watchFile once readFile has settled:
\* the cache it leaves and the events it passes to the callback
pollBody(cache, filePath, out) ==
    IF out.code = "ok"
    THEN LET currentContent  == out.value
             read            == afterRead(cache, filePath, out)
             previousContent == read[filePath]
         IN  IF previousContent # currentContent
             THEN [cache |-> SetKey(read, filePath, currentContent), events |-> <<"change">>]
             ELSE [cache |-> read, events |-> <<>>]
    ELSE IF filePath \in DOMAIN cache
         THEN [cache |-> DelKey(cache, filePath), events |-> <<"delete">>]
         ELSE [cache |-> cache, events |-> <<>>]

watchFrame == UNCHANGED <<files, size, modifiedFiles, deletedPaths, storage, loads, fsType,
                          last, watchers, services>>

\* watchFile(F, options, callback): the first read, then setInterval
watchFile ==
    /\ watcher = "none"
    /\ fileContents' = afterRead(fileContents, F, OPFSFileSystem_readFile(backend, F))
    /\ watcher' = "open"
    /\ UNCHANGED <<backend, poll, calls>>
    /\ watchFrame

\* the handle's close(): clearInterval and activeWatchers.delete
watch_close ==
    /\ watcher = "open"
    /\ watcher' = "closed"
    /\ UNCHANGED <<backend, fileContents, poll, calls>>
    /\ watchFrame

\* the interval fires: the callback starts and awaits readFile
poll_fire ==
    /\ watcher = "open"
    /\ poll = "idle"
    /\ poll' = "reading"
    /\ UNCHANGED <<backend, fileContents, watcher, calls>>
    /\ watchFrame

\* readFile settles and the rest of the interval callback runs
poll_settle ==
    LET body == pollBody(fileContents, F, OPFSFileSystem_readFile(backend, F)) IN
    /\ poll = "reading"
    /\ Len(calls) + Len(body.events) <= MaxCalls
    /\ poll' = "idle"
    /\ fileContents' = body.cache
    /\ calls' = calls \o [i \in DOMAIN body.events |-> Invoked(body.events[i], watcher = "closed")]
    /\ UNCHANGED <<backend, watcher>>
    /\ watchFrame

\* writeFile(F, bytes) on the instance the file is watched on
watch_writeFile ==
    \E bytes \in WatchBytes :
        LET out == OPFSFileSystem_writeFile(backend, F, bytes) IN
        /\ backend' = out.tree
        /\ fileContents' = IF out.code = "ok" THEN SetKey(fileContents, F, bytes) ELSE fileContents
        /\ UNCHANGED <<watcher, poll, calls>>
        /\ watchFrame

\* rm(F) on the instance the file is watched on
watch_rm ==
    LET out == OPFSFileSystem_rm(backend, F, "absent") IN
    /\ backend' = out.tree
    /\ fileContents' = IF out.code = "ok" THEN DelKey(fileContents, F) ELSE fileContents
    /\ UNCHANGED <<watcher, poll, calls>>
    /\ watchFrame

\* backend_writeFile and backend_rm are calls on another instance over the
\* same store: they change the file and leave this instance's cache alone
NextWatch ==
    \/ watchFile
    \/ watch_close
    \/ poll_fire
    \/ poll_settle
    \/ watch_writeFile
    \/ watch_rm
    \/ backend_writeFile
    \/ backend_rm

SpecWatch == InitSpelling /\ [][NextWatch]_vars

----------------------------------------------------------------------------
(* Claims *)

WriteOps == {"createFile", "saveFile", "createFolder", "deleteFile", "deleteFolder"}

\* the path is a deleted path, or such a path followed by "/" and more
Tombstoned(deleted, p) ==
    \E d \in deleted : p = d \/ StartsWith(p, d \o <<"/">>)

\* C1: once deleteFile(p) has returned and no create at p follows, the Mirror
\* holds no Dirent at p after any later step (events, a content load that
\* resolves late, a reconstruction). Stated for the step that follows the delete.
C1_NeverResurrected ==
    [][ (last.op = "deleteFile" /\ last.ok /\ last'.op \notin {"createFile", "createFolder"})
            => last.path \notin DOMAIN files' ]_vars

\* C2: an event whose stripped path is a deleted path or lies below one is
\* discarded: the files map, the counter and the ledger stay as they were.
C2_SuppressedEventDiscarded ==
    [][ (last'.op = "processEventBuffer" /\ Tombstoned(deletedPaths, last'.path))
            => UNCHANGED <<files, size, modifiedFiles>> ]_vars

\* C2 witness: an event below a deleted folder, for a path that is not itself
\* in the deleted-path set, was handed to the Mirror.
C2_Witness ==
    /\ last.op = "processEventBuffer"
    /\ last.path \notin deletedPaths
    /\ Tombstoned(deletedPaths, last.path)

\* C3: after a delete of p and a successful createFile / createFolder at p,
\* p is in the deleted-path set neither in memory nor in the persisted list.
C3_CreateClearsTombstone ==
    (last.op \in {"createFile", "createFolder"} /\ last.ok)
        => /\ last.path \notin deletedPaths
           /\ last.path \notin loadDeletedPaths(storage)

\* C4: a Mirror write that rethrows leaves the files map, the counter, the
\* ledger and the deleted-path set as they were before the call.
C4_FailedWriteChangesNothing ==
    [][ last' = Threw => UNCHANGED <<files, size, modifiedFiles, deletedPaths>> ]_vars

\* C4 witness: a write threw while the Mirror held Dirents and tombstones.
C4_Witness ==
    /\ last = Threw
    /\ DOMAIN files # {}
    /\ DOMAIN modifiedFiles # {}
    /\ deletedPaths # {}

\* C5: after createFile(p, c) or saveFile(p, c) has returned, getFile(p) gives
\* content c until a later Mirror write or event batch; a content load that
\* resolves in between does not change it.
C5_WriteStaysVisible ==
    [][ (/\ last.op \in {"createFile", "saveFile"} /\ last.ok
         /\ last'.op \notin WriteOps \cup {"processEventBuffer", "constructor"})
            => /\ getFile(files', last.path).type = "file"
               /\ getFile(files', last.path).content = last.content ]_vars

\* C6 as written: saveFile(p, new) over a File holding old # new puts p, with
\* content new, among the modified files; resetFileModifications empties them.
C6_SaveIsModified ==
    [][ /\ (/\ last'.op = "saveFile" /\ last'.ok
            /\ IsFile(files, last'.path)
            /\ files[last'.path].content # last'.content)
              => /\ last'.path \in DOMAIN getModifiedFiles(files', modifiedFiles')
                 /\ getModifiedFiles(files', modifiedFiles')[last'.path].content = last'.content
        /\ last'.op = "resetFileModifications" => ModifiedUndefined(files', modifiedFiles') ]_vars

\* C6 amended: the same, for a path whose ledger entry, if it has one, differs
\* from the new content.
C6_SaveIsModifiedAgainstBaseline ==
    [][ /\ (/\ last'.op = "saveFile" /\ last'.ok
            /\ IsFile(files, last'.path)
            /\ files[last'.path].content # last'.content
            /\ last'.path \in DOMAIN modifiedFiles => modifiedFiles[last'.path] # last'.content)
              => /\ last'.path \in DOMAIN getModifiedFiles(files', modifiedFiles')
                 /\ getModifiedFiles(files', modifiedFiles')[last'.path].content = last'.content
        /\ last'.op = "resetFileModifications" => ModifiedUndefined(files', modifiedFiles') ]_vars

\* C6 witness: a save has returned and its path is among the modified files.
C6_Witness ==
    /\ last.op = "saveFile" /\ last.ok
    /\ last.path \in DOMAIN getModifiedFiles(files, modifiedFiles)
    /\ modifiedFiles[last.path] # last.content

\* C7: a write of the empty string reaches the backend as the single-space
\* sentinel, and a read-back of the sentinel into the Mirror gives content ''.
C7_EmptyFileRoundTrip ==
    [][ /\ (last'.op \in {"createFile", "saveFile"} /\ last'.ok /\ last'.content = Empty)
              => backend'[last'.path] = Data(encode(Space))
        /\ \A l \in loads \ loads' :
              (l.stage = "read" /\ l.buffer = Buf(encode(Space)) /\ last'.op = "loadFileContentAsync")
                  => files'[l.path].content = Empty ]_vars

\* C8: when deleteFile(p) or deleteFolder(p) has returned, p is in the
\* persisted deleted-path list.
C8_DeleteIsDurable ==
    (last.op \in {"deleteFile", "deleteFolder"} /\ last.ok)
        => last.path \in loadDeletedPaths(storage)

\* C9: every proper ancestor directory (inside the work directory) of a path
\* holding a File holds a Folder.
C9_NoOrphanFiles ==
    \A p \in DOMAIN files :
        files[p].type = "file" => \A a \in Ancestors(p) : IsFolder(files, a)

\* C10: every path with a ledger entry holds a File in the files map.
C10_LedgerOnlyForFiles ==
    \A p \in DOMAIN modifiedFiles : IsFile(files, p)

\* C11: the counter changes by +1 on each successful createFile and each applied
\* add_file event, by -1 on each successful deleteFile and each applied
\* remove_file event, and not at all on saveFile, createFolder, change events
\* and add_dir events.
C11_CounterDeltas ==
    [][ /\ (last'.op = "createFile" /\ last'.ok) => size' = size + 1
        /\ (last'.op = "deleteFile" /\ last'.ok) => size' = size - 1
        /\ (last'.op \in {"saveFile", "createFolder"} /\ last'.ok) => size' = size
        /\ \A ev \in Events :
              (processBatch(<<ev>>) /\ ~isSuppressed(deletedPaths, StripTrailingSlashes(ev.path)))
                  => size' = size + (CASE ev.type = "add_file" -> 1
                                       [] ev.type = "remove_file" -> -1
                                       [] OTHER -> 0) ]_vars

\* C12: a change of the active backend leaves a Mirror whose files map holds no
\* Dirent, whose counter is 0 and whose ledger is empty; the deleted-path set
\* and its persisted list are as before.
C12_SwitchRebuildsMirror ==
    [][ fileSystemTypeChanged
            => /\ files' = EmptyMap
               /\ size' = 0
               /\ modifiedFiles' = EmptyMap
               /\ UNCHANGED <<deletedPaths, storage>> ]_vars

\* C13: at no time are two executions of syncOPFS in progress.
C13_TicksNeverOverlap == Len(syncs) <= 1

\* C14: when an execution of syncOPFS has failed, the initial one included, the
\* failure has been logged and the interval that starts the next one is in place.
C14_FailedTickDoesNotStopSync ==
    outcome \in {"logged", "rejected"} => (outcome = "logged" /\ interval = "installed")

\* execution k writes a file to the sandbox in this step
wrote(k) ==
    /\ writeFileStep(k)
    /\ fs_writeFileCan(wcfs, path_join(WORK_DIR_NAME, filesOf(syncs[k].allFiles)[syncs[k].i].path))

\* C15: when an execution writes a file, it has before that made every
\* directory of its listing, and the parent directory of the file, which is
\* in the sandbox at the write.
C15_DirectoriesBeforeFiles ==
    [][ \A k \in DOMAIN syncs :
          wrote(k) =>
            LET s == syncs[k]
                targetPath == path_join(WORK_DIR_NAME, filesOf(s.allFiles)[s.i].path)
            IN  /\ \A j \in DOMAIN directoriesOf(s.allFiles) :
                      path_join(WORK_DIR_NAME, directoriesOf(s.allFiles)[j].path) \in s.made
                /\ dirname(targetPath) \in s.made
                /\ HasDir(wcfs, dirname(targetPath)) ]_vars

\* C15 witness: an execution whose listing holds a directory has written its
\* first file and goes on to the second.
C15_Witness ==
    \E k \in DOMAIN syncs :
        /\ syncs[k].pc = "readFile"
        /\ syncs[k].i = 2
        /\ directoriesOf(syncs[k].allFiles) # <<>>

\* every entry of the persistent tree is in the sandbox, a file with its bytes
Synced ==
    \A p \in DOMAIN opfs :
        LET targetPath == path_join(WORK_DIR_NAME, p) IN
        /\ targetPath \in DOMAIN wcfs
        /\ wcfs[targetPath] = opfs[p]

\* execution k ends fulfilled in this step
fulfilled(k) ==
    /\ mkdirStep(k) \/ mkdirParentStep(k) \/ writeFileStep(k)
    /\ Len(syncs') < Len(syncs)
    /\ outcome' = "ok"

\* C16: an execution whose listing is of the persistent tree as it still is,
\* taken after the sandbox was last emptied, and which ends fulfilled, leaves
\* the sandbox holding every directory and every file of the persistent tree,
\* each file with the same bytes: with the tree at rest the next tick brings
\* the sandbox to it.
C16_FulfilledTickSyncs ==
    [][ \A k \in DOMAIN syncs : (fulfilled(k) /\ syncs[k].fresh) => Synced' ]_vars

\* C17: an execution that ends fulfilled, after a fulfilled execution and with
\* the persistent tree unchanged since that one's listing, leaves the sandbox
\* tree as that one left it.
C17_SyncIdempotent ==
    [][ /\ \A k \in DOMAIN syncs :
              (fulfilled(k) /\ syncs[k].base.known) => wcfs' = syncs[k].base.tree
        /\ (intervalSync /\ Len(syncs') = Len(syncs) /\ settled.known)
              => wcfs' = settled.tree ]_vars

\* C18: a step of the Synchronizer leaves every file and every directory of
\* the sandbox in place.
C18_SyncRemovesNothing ==
    [][ changes' = changes
            => \A p \in DOMAIN wcfs : p \in DOMAIN wcfs' /\ wcfs'[p].kind = wcfs[p].kind ]_vars

\* C18 witness: an execution has ended fulfilled on the current persistent
\* tree, and the sandbox holds an entry whose source is no longer in that tree.
C18_Witness ==
    /\ settled.known
    /\ outcome = "ok"
    /\ \E p \in DOMAIN wcfs :
          /\ p # WORK_DIR_NAME
          /\ SubSeq(p, Len(WORK_DIR_NAME) + 2, Len(p)) \notin DOMAIN opfs

\* C19: deleteDirectory of the root directory, spelled '', '/' or '//', with
\* recursive true, false or absent, fails and leaves the tree as it was.
C19_RootDeletionFails ==
    [][ (result'.op = "deleteDirectory" /\ result'.path \in RootSpellings)
            => (result'.code # "ok" /\ opfs' = opfs) ]_vars

\* C19 witness: the initialised service was asked to delete '//' recursively
\* while the tree held entries, and it still holds them.
C19_Witness ==
    /\ root
    /\ result.op = "deleteDirectory"
    /\ result.path = <<"/", "/">>
    /\ result.recursive = "true"
    /\ P_f \in DOMAIN opfs

\* C20: deleteDirectory without the recursive option on a directory that has a
\* child fails with the code DIRECTORY_NOT_EMPTY and leaves the tree as it was.
C20_NonEmptyDirectoryNotEmpty ==
    [][ (/\ root
         /\ result'.op = "deleteDirectory"
         /\ result'.recursive = "absent"
         /\ HasDir(opfs, normalize(result'.path))
         /\ Descendants(opfs, normalize(result'.path)) # {})
            => (result'.code = "DIRECTORY_NOT_EMPTY" /\ opfs' = opfs) ]_vars

\* C21: initialize, with the readwrite permission on the root not granted and
\* the request for it answered other than 'granted', fails with the code
\* PERMISSION_DENIED, and an adapter that had no root handle has none after it.
C21_DeniedGrantIsPermissionDenied ==
    [][ (/\ initialize
         /\ window
         /\ result'.raised = NoFailure
         /\ permission # "granted"
         /\ permission' # "granted")
            => (result'.code = "PERMISSION_DENIED" /\ (~root => ~root')) ]_vars

\* C22: a call other than exists that ends on a native failure of the platform
\* ends with the code assigned to the kind of the failure: NOT_FOUND for
\* NotFoundError, PERMISSION_DENIED for NotAllowedError, QUOTA_EXCEEDED for
\* QuotaExceededError, INVALID_PATH for TypeError, FILESYSTEM_ERROR otherwise.
C22_NativeFailureCode ==
    [][ (result'.raised # NoFailure /\ result'.op # "exists")
            => result'.code = handleFileSystemError(result'.raised) ]_vars

\* the codes of FileSystemError
Taxonomy ==
    {"NOT_FOUND", "PERMISSION_DENIED", "ALREADY_EXISTS", "DIRECTORY_NOT_EMPTY", "INVALID_PATH",
     "QUOTA_EXCEEDED", "NOT_INITIALIZED", "FILESYSTEM_ERROR", "ENVIRONMENT_ERROR"}

\* the methods that open with ensureClient() and the check of this.root
CheckedOperations ==
    {"createFile", "writeFile", "readFile", "createWriteStream", "createReadStream", "exists",
     "getFileInfo", "readDirectory", "createDirectory", "deleteFile", "deleteDirectory",
     "copy", "move"}

\* C23: a call that fails ends with a code of the taxonomy, and a call made in
\* the browser while the service has no root handle (before initialize, after
\* cleanup) ends with NOT_INITIALIZED.
C23_TypedFailure ==
    [][ /\ result'.code \in Taxonomy \cup {"ok"}
        /\ (window /\ ~root /\ result'.op \in CheckedOperations)
              => result'.code = "NOT_INITIALIZED" ]_vars

\* C24: exists ends without throwing in every state of the adapter and for
\* every path; it returns a boolean, false when the path is no entry of the
\* tree.
C24_ExistsNeverThrows ==
    [][ result'.op = "exists"
            => /\ result'.code = "ok"
               /\ result'.value \in {"true", "false"}
               /\ normalize(result'.path) \notin DOMAIN opfs => result'.value = "false" ]_vars

\* C25: without window every call of the service, initialize, move, watch and
\* cleanup included, ends with ENVIRONMENT_ERROR.
C25_EnvironmentChecked ==
    [][ ~window => result'.code = "ENVIRONMENT_ERROR" ]_vars

\* the methods that ask for no creation, and those that create
NonCreating ==
    {"readFile", "exists", "getFileInfo", "readDirectory", "deleteFile", "deleteDirectory",
     "createReadStream"}
Creating == {"createFile", "writeFile", "createDirectory", "createWriteStream"}

\* C26: readFile, exists, getFileInfo, readDirectory, deleteFile,
\* deleteDirectory and createReadStream add no entry to the tree, and leave the
\* tree as it was when the target is missing; an entry is added only by
\* createFile, writeFile, createDirectory and createWriteStream, or by copy and
\* move, which call writeFile and createDirectory.
C26_OnlyCreatingCallsCreate ==
    [][ /\ result'.op \in NonCreating
              => /\ DOMAIN opfs' \subseteq DOMAIN opfs
                 /\ normalize(result'.path) \notin DOMAIN opfs => opfs' = opfs
        /\ ~(DOMAIN opfs' \subseteq DOMAIN opfs)
              => result'.op \in Creating \cup {"copy", "move"} ]_vars

\* C26 witness: the initialised service was asked to read d/f while the tree
\* held other entries but no d, and the tree still holds no d.
C26_Witness ==
    /\ root /\ window
    /\ result.op = "readFile"
    /\ result.path = P_f
    /\ result.code = "NOT_FOUND"
    /\ opfs # EmptyMap
    /\ P_d \notin DOMAIN opfs

\* C27: a move whose copy fails fails and leaves the source as it was; a move
\* of a file whose copy succeeds succeeds; after a successful move of a file
\* the source is gone and the destination is a file with the bytes the source
\* had.
C27_MoveIsCopyThenDelete ==
    [][ (window /\ root /\ result'.op = "move")
            => LET sourcePath == result'.path
                   destinationPath == result'.value
                   source == normalize(sourcePath)
                   destination == normalize(destinationPath)
                   copies == copyOutcomes(opfs, sourcePath, destinationPath)
                   below(tree) ==
                       [p \in {q \in DOMAIN tree : q = source \/ StartsWith(q, source \o <<"/">>)}
                           |-> tree[p]]
               IN  /\ (\A copied \in copies : copied.code # "ok")
                         => (result'.code # "ok" /\ below(opfs') = below(opfs))
                   /\ (HasFile(opfs, source) /\ \A copied \in copies : copied.code = "ok")
                         => result'.code = "ok"
                   /\ (HasFile(opfs, source) /\ result'.code = "ok")
                         => /\ source \notin DOMAIN opfs'
                            /\ HasFile(opfs', destination)
                            /\ opfs'[destination].bytes = opfs[source].bytes ]_vars

\* a segment of the path is '..'
hasDotDot(path) == \E i \in DOMAIN split(path) : split(path)[i] = DotDot

\* C28: a call with a path that has a '..' segment is rejected with
\* INVALID_PATH and leaves the tree as it was; exists answers false.
C28_DotDotRejected ==
    [][ (window /\ root /\ result'.op \in CheckedOperations /\ hasDotDot(result'.path))
            => /\ opfs' = opfs
               /\ IF result'.op = "exists" THEN result'.value = "false"
                  ELSE result'.code = "INVALID_PATH" ]_vars

\* the separator at the head, at the end or twice in a row
separatorAt(s, i) == i \in DOMAIN s /\ s[i] = "/"
leadingSeparator(s) == separatorAt(s, 1)
trailingSeparator(s) == separatorAt(s, Len(s))
repeatedSeparator(s) == \E i \in DOMAIN s : separatorAt(s, i) /\ separatorAt(s, i + 1)

\* C30: for a path string p, normalize(join(normalize(p), '')) is normalize(p);
\* normalize(p) has no separator at its head, none at its end and none twice in
\* a row; isRoot(p) is true exactly when normalize(p) is the empty string.
C30_NormalizeIdempotent ==
    /\ result.op = "join" => normalize(result.value) = normalize(result.path)
    /\ result.op = "normalize"
          => /\ ~leadingSeparator(result.value)
             /\ ~trailingSeparator(result.value)
             /\ ~repeatedSeparator(result.value)
    /\ result.op = "isRoot"
          => (result.value = "true" <=> normalize(result.path) = <<>>)

\* C30 witness: join was applied to the normalized form of '/a//b' and gave
\* 'a/b'.
C30_Witness ==
    /\ result.op = "join"
    /\ result.path = <<"/", "a", "/", "/", "b">>
    /\ result.value = <<"a", "/", "b">>

\* C29: after a file was written through one spelling of its path, every
\* other spelling that normalizes to the same value reads the same bytes and
\* removes the same entry; in OPFSService exists answers true for it too. This
\* in OPFSService (opfs) and in OPFSFileSystem (backend).
C29_SpellingsResolveAlike ==
    [][ /\ (result'.op = "writeFile" /\ result'.code = "ok")
              => \A other \in ServiceSpellings :
                    normalize(other) = normalize(result'.path)
                    => /\ readFileBinaryOutcome(opfs', other)
                              = readFileBinaryOutcome(opfs', result'.path)
                       /\ readFileBinaryOutcome(opfs', other).code = "ok"
                       /\ existsOutcome(opfs', other).value = "true"
                       /\ deleteFileOutcome(opfs', other).code = "ok"
                       /\ deleteFileOutcome(opfs', other).tree
                              = deleteFileOutcome(opfs', result'.path).tree
        /\ (last'.op = "backend.writeFile" /\ last'.ok)
              => \A other \in BackendSpellings :
                    normalize(other) = normalize(last'.path)
                    => /\ OPFSFileSystem_readFile(backend', other).code = "ok"
                       /\ OPFSFileSystem_readFile(backend', other).value = last'.content
                       /\ OPFSFileSystem_rm(backend', other, "absent").code = "ok"
                       /\ OPFSFileSystem_rm(backend', other, "absent").tree
                              = OPFSFileSystem_rm(backend', last'.path, "absent").tree ]_vars

\* C31: isValid(p) is false exactly when one of the segments of p between
\* slashes is '..'; two dots inside a longer name leave the path valid.
C31_InvalidIffDotDotSegment ==
    result.op = "isValid"
        => (result.value = "false"
                <=> \E i \in DOMAIN splitSeparator(result.path) :
                        splitSeparator(result.path)[i] = DotDot)

\* the Dirents of the map m at, or nested under, a path of the set deleted
underDeleted(m, deleted) == {p \in DOMAIN m : isSuppressed(deleted, p)}

\* C32: a cleanup pass that runs with deleted paths removes every Dirent whose
\* path is in, or nested under, a deleted path, and lowers the counter by one
\* for each File Dirent it removes.
C32_CleanupCountsEachFileOnce ==
    [][ (last'.op = "fileSystemTypeChanged" /\ deletedPaths # {})
            => /\ underDeleted(files, deletedPaths) \cap DOMAIN files' = {}
               /\ size' = size - Cardinality({p \in DOMAIN files \ DOMAIN files' : IsFile(files, p)}) ]_vars

\* the path shares d as a string prefix and is neither d nor below d
sharesPrefixOnly(q, d) == StartsWith(q, d) /\ q # d /\ ~StartsWith(q, d \o <<"/">>)

\* C33: a remove_dir event for the directory d that is not suppressed clears
\* the Dirent at d and every Dirent below d, and leaves the Dirents at paths
\* that only share d as a string prefix as they were.
C33_RemoveDirCascades ==
    [][ \A ev \in PrefixEvents :
            (ev.type = "remove_dir" /\ ~isSuppressed(deletedPaths, ev.path) /\ processBatch(<<ev>>))
                => /\ ev.path \notin DOMAIN files'
                   /\ Descendants(files', ev.path) = {}
                   /\ \A q \in DOMAIN files :
                         sharesPrefixOnly(q, ev.path) => (q \in DOMAIN files' /\ files'[q] = files[q]) ]_vars

C35_LedgerHoldsBaseline ==
    [][ (last'.op \in {"saveFile", "createFile"} /\ last'.ok /\ IsFile(files, last'.path))
            => LET p == last'.path
               IN  /\ p \in DOMAIN modifiedFiles'
                   /\ modifiedFiles'[p] = IF p \in DOMAIN modifiedFiles THEN modifiedFiles[p]
                                          ELSE files[p].content ]_vars

\* C36: while a path stays a File Dirent of the Mirror, a saveFile call, an
\* event batch or a finished content load leaves its isBinary flag as it was.
C36_IsBinaryKept ==
    [][ last'.op \in {"saveFile", "processEventBuffer", "loadFileContentAsync"}
            => \A p \in DOMAIN files :
                  (IsFile(files, p) /\ IsFile(files', p))
                      => files'[p].isBinary = files[p].isBinary ]_vars

\* C37: after copy(source, destination) of a directory has succeeded, each
\* entry below the source is below the destination at the same relative path,
\* with the same kind and bytes, and no entry outside the destination was
\* written; for every spelling of the source.
C37_CopyKeepsRelativePaths ==
    [][ (result'.op = "copy" /\ result'.code = "ok" /\ HasDir(opfs, normalize(result'.path)))
            => LET source == normalize(result'.path)
                   destination == normalize(result'.value)
               IN  /\ \A q \in Descendants(opfs, source) :
                         LET copy == destination \o SubSeq(q, Len(source) + 1, Len(q))
                         IN  copy \in DOMAIN opfs' /\ opfs'[copy] = opfs[q]
                   /\ \A q \in DOMAIN opfs' :
                         (q # destination /\ ~StartsWith(q, destination \o <<"/">>))
                             => (q \in DOMAIN opfs /\ opfs'[q] = opfs[q]) ]_vars

\* C38: in every state of the Mirror the counter is the number of File
\* Dirents of the files map, and it is not negative.
C38_CounterIsFileCount ==
    /\ size = Cardinality({p \in DOMAIN files : IsFile(files, p)})
    /\ size >= 0

\* C39: a Mirror has at most one watchPath subscription open at any time, from
\* its construction on and across changes of the file system type: the
\* subscription made earlier is closed before the next one is registered
C39_OneWatchSubscription ==
    openWatchers(watchers) <= 1

\* C40: a watchFile watcher that has been closed is silent: once close() has
\* returned the callback is not invoked again, also when the interval callback
\* was awaiting readFile at the time of the close
C40_ClosedWatcherIsSilent ==
    \A i \in DOMAIN calls : ~calls[i].closed


====
